---- MODULE Spec2Model ----
(***************************************************************************)
(* TwitterBackup: the ingestion batch (twitter_data_processor.py) that     *)
(* loads per-tweet JSON documents into the SQLite store, and the read      *)
(* endpoints of the viewer (twitter_viewer.py) that render the store.      *)
(*                                                                         *)
(* Python values are modelled as follows.                                  *)
(*   dict        a TLA+ function whose DOMAIN is the set of keys present   *)
(*   str         a sequence of one-character strings (Text)                *)
(*   None/NULL   NULL in an integer column, NoText in a text column,       *)
(*               NoUrl for a URL, NoDate for a date                        *)
(*   Optional[x] a sequence of length 0 or 1                               *)
(*   a table     the set of its rows                                       *)
(***************************************************************************)
EXTENDS Integers, Sequences, FiniteSets, TLC

\* ------------------------------------------------------------------ bounds
MaxDocs == 2   \* documents in the twitter-meta directory
MaxRuns == 2   \* ingestion runs (one process each)

\* --------------------------------------------------------- Python values
NULL == -1                      \* None / SQL NULL in an integer column
NoText == <<"<None>">>          \* None / SQL NULL in a text column
NoUrl == [where |-> "", stem |-> "", ext |-> "", id |-> 0]
NoDate == [y |-> 0, m |-> 0, t |-> 0]

\* dict.get(k, dflt)
Get(d, k, dflt) == IF k \in DOMAIN d THEN d[k] ELSE dflt

\* truthiness of a str-or-None value
TruthyText(s) == s # NoText /\ s # <<>>
TruthyUrl(u) == u # NoUrl

\* ord() of the characters that occur in file names
Ord(c) ==
  CASE c = "." -> 46 [] c = "0" -> 48 [] c = "1" -> 49 [] c = "2" -> 50
    [] c = "3" -> 51 [] c = "4" -> 52 [] c = "5" -> 53 [] c = "6" -> 54
    [] c = "7" -> 55 [] c = "8" -> 56 [] c = "9" -> 57 [] c = "J" -> 74
    [] c = "M" -> 77 [] c = "_" -> 95 [] c = "a" -> 97 [] c = "b" -> 98
    [] c = "j" -> 106 [] c = "m" -> 109 [] OTHER -> 0

\* str.lower() on one character
LowerChar(c) == CASE c = "J" -> "j" [] c = "M" -> "m" [] c = "A" -> "a" [] OTHER -> c
Lower(s) == [k \in 1..Len(s) |-> LowerChar(s[k])]

Digits == <<"0", "1", "2", "3", "4", "5", "6", "7", "8", "9">>

\* str(n) of a natural number
RECURSIVE IntToText(_)
IntToText(n) ==
  IF n < 10 THEN <<Digits[n + 1]>> ELSE IntToText(n \div 10) \o <<Digits[(n % 10) + 1]>>

\* a < b for str (lexicographic by code point)
RECURSIVE TextLess(_, _)
TextLess(a, b) ==
  IF b = <<>> THEN FALSE
  ELSE IF a = <<>> THEN TRUE
  ELSE IF Ord(Head(a)) # Ord(Head(b)) THEN Ord(Head(a)) < Ord(Head(b))
  ELSE TextLess(Tail(a), Tail(b))

StartsWith(s, p) == Len(p) <= Len(s) /\ SubSeq(s, 1, Len(p)) = p

\* Path(name).suffix: from the last dot, unless the name has none or starts with it
Suffix(name) ==
  LET dots == {k \in 2..Len(name) : name[k] = "."}
  IN IF dots = {} \/ name[Len(name)] = "." THEN <<>>
     ELSE LET k == CHOOSE d \in dots : \A e \in dots : e <= d
          IN SubSeq(name, k, Len(name))

\* sorted(list of str)
RECURSIVE SortedTexts(_)
SortedTexts(S) ==
  IF S = {} THEN <<>>
  ELSE LET m == CHOOSE x \in S : \A y \in S : ~TextLess(y, x)
       IN <<m>> \o SortedTexts(S \ {m})

\* json.dumps / json.loads of a list stored in a TEXT column; NoJson is NULL
JsonDumps(list) == <<"json", list>>
JsonLoads(text) == text[2]
NoJson == <<"null", <<>>>>
TruthyJson(text) == text # NoJson
JsonLoadsRaises(text) == text[1] # "json"

\* hashlib.md5(url.encode()).hexdigest(): one digest per URL
Hash(url) == <<"md5", url.stem, url.ext>>

\* ------------------------------------------------------------ input pool
UrlA == [where |-> "remote", stem |-> "a", ext |-> ".jpg", id |-> 0]
UrlB == [where |-> "remote", stem |-> "b", ext |-> ".png", id |-> 0]
Urls == {UrlA, UrlB}

Date(y, m, t) == [y |-> y, m |-> m, t |-> t]

User1 == [id |-> 1, name |-> <<"x">>, profile_image |-> UrlA,
          profile_banner |-> UrlB, followers_count |-> 5]
User1b == [id |-> 1, name |-> <<"y">>, profile_image |-> UrlA]
User2 == [id |-> 2, name |-> <<"z">>, profile_image |-> UrlA]
UserNoId == [name |-> <<"w">>, profile_image |-> UrlB]

File(data) == [valid |-> TRUE, data |-> data]

DocT1 == File([tweet_id |-> 1, author |-> User1b, user |-> User1,
               content |-> <<"a", "b">>, date |-> Date(2023, 1, 1)])
DocT1b == File([tweet_id |-> 1, user |-> User2, retweet_id |-> 3])
DocT2 == File([tweet_id |-> 2, author |-> User1b, user |-> User2, retweet_id |-> 1,
               quote_id |-> 1, reply_id |-> 9, content |-> <<"A", "_">>,
               date |-> Date(2023, 1, 1)])
DocT3 == File([tweet_id |-> 3, quote_id |-> 1, reply_id |-> 3, content |-> <<>>,
               date |-> Date(2024, 12, 3)])
DocT4 == File([tweet_id |-> 4, author |-> User2, retweet_id |-> NULL,
               content |-> <<"a">>, date |-> Date(2024, 12, 3)])
DocBad == [valid |-> FALSE, data |-> <<>>]
DocNoTweetId == File([author |-> User2, content |-> <<"a">>])
DocUserNoId == File([tweet_id |-> 2, author |-> User1, user |-> UserNoId])

DocPool == {DocT1, DocT1b, DocT2, DocT3, DocT4, DocBad, DocNoTweetId, DocUserNoId}

\* the listings of twitter-meta: glob order is arbitrary, file names are distinct
Dirs ==
  {d \in UNION {[1..n -> DocPool] : n \in 0..MaxDocs} :
     \A j, k \in 1..Len(d) : j # k => d[j] # d[k]}

\* media files present in img/
ImgDir == {<<"1", "_", "b", ".", "M">>, <<"1", "_", "a", ".", "j">>,
           <<"1", "2", "_", "a", ".", "j">>, <<"2", "_", "a">>}

\* ------------------------------------------------------------- the state
VARIABLES
  dir,               \* twitter-meta: the JSON files, in glob order
  imgDir,            \* img/: the media file names on disk
  tweets,            \* table tweets
  users,             \* table users
  media,             \* table media_files
  mediaSeq,          \* sqlite_sequence of media_files (AUTOINCREMENT)
  ledgerFile,        \* avatar/downloaded_images.txt, the set of its lines
  avatarDir,         \* avatar/: the cached image files
  pc,                \* "idle": no process; "loop": inside process_all_files
  run,               \* processes started so far
  downloaded_images, \* TwitterDataProcessor.downloaded_images
  i,                 \* loop index of process_all_files (1-based)
  success_count,     \* process_all_files.success_count
  leaked,            \* a failed process_json_file left its connection, with rows
                     \* written and not committed, to the garbage collector
  resp,              \* the response of the request being served, <<>> if none
  call,              \* a formatter function called on its own: name and arguments
  \* history variables (observations, not read by the program)
  okUrls,            \* URLs fetched successfully so far
  refetched,         \* URLs requested over the network after a successful fetch
  last,              \* what the last process_json_file call did
  visits,            \* this run: how often each file was handed to process_json_file
  committedDocs,     \* files whose rows were committed, in this or an earlier run
  committedRun,      \* this run: number of files whose rows were committed
  attemptedRun,      \* this run: URLs requested over the network
  ledgerAtStart      \* downloaded_images as loaded when this run started

vars == <<dir, imgDir, tweets, users, media, mediaSeq, ledgerFile, avatarDir, pc, run,
          downloaded_images, i, success_count, leaked, resp, call, okUrls, refetched,
          last, visits,
          committedDocs, committedRun, attemptedRun, ledgerAtStart>>

inputVars == <<dir, imgDir, call>>
dbVars == <<tweets, users, media, mediaSeq>>
procVars == <<pc, run, downloaded_images, i, success_count, leaked>>
fsVars == <<ledgerFile, avatarDir>>
histVars == <<okUrls, refetched, last, visits, committedDocs, committedRun,
              attemptedRun, ledgerAtStart>>

NoLast == [i |-> 0, ret |-> FALSE, committed |-> FALSE, log |-> <<>>]

\* ------------------------------------------------------------ ingestion
LoadNothing(file) == {}

\* load_downloaded_images: one hash per line, stripped; no file, no hashes
LoadDownloadedImages(file) == file

SaveNothing(hashes) == {}

\* save_downloaded_images: the file is rewritten with one line per hash
SaveDownloadedImages(hashes) == hashes

\* get_media_files: sorted names of the files of img/ matching "{tweet_id}_*"
GetMediaFiles(img, tweet_id) ==
  SortedTexts({f \in img : StartsWith(f, IntToText(tweet_id) \o <<"_">>)})

\* the "url_hash in self.downloaded_images" test of download_image
InLedger(ledger, url) == Hash(url) \in ledger

\* download_image. fs = [mem, avatar, okUrls, refetched, log]; ok is the outcome of
\* requests.get + raise_for_status + the file write, should the network be reached
DownloadImage(fs, url, filename, ok) ==
  IF InLedger(fs.mem, url) THEN fs
  ELSE LET seen == [fs EXCEPT !.log = Append(@, [url |-> url, ok |-> ok]),
                              !.refetched = IF url \in fs.okUrls THEN @ \cup {url} ELSE @]
       IN IF ok
          THEN [seen EXCEPT !.avatar = @ \cup {filename},
                            !.mem = @ \cup {Hash(url)},
                            !.okUrls = @ \cup {url}]
          ELSE seen

\* f"{kind}_{user_data['id']}{Path(parsed_url.path).suffix}"
LocalName(kind, user_id, url) == [kind |-> kind, id |-> user_id, ext |-> url.ext]

\* the outcome of the next network request of this process_json_file call
NextOutcome(fs, net) == net[Len(fs.log) + 1]

\* process_profile_images: banner first, then avatar
ProcessProfileImages(fs, user_data, net) ==
  LET banner == Get(user_data, "profile_banner", NoUrl)
      image == Get(user_data, "profile_image", NoUrl)
      fs1 == IF TruthyUrl(banner)
             THEN DownloadImage(fs, banner, LocalName("banner", user_data.id, banner),
                                NextOutcome(fs, net))
             ELSE fs
  IN IF TruthyUrl(image)
     THEN DownloadImage(fs1, image, LocalName("avatar", user_data.id, image),
                        NextOutcome(fs1, net))
     ELSE fs1

InsertOnly(table, row, pk) == table \cup {row}

\* INSERT OR REPLACE on a table with primary key column pk
InsertOrReplace(table, row, pk) == {r \in table : r[pk] # row[pk]} \cup {row}

\* insert_user
UserRow(user_data) ==
  [user_id |-> user_data.id,
   name |-> Get(user_data, "name", NoText),
   profile_banner |-> Get(user_data, "profile_banner", NoUrl),
   profile_image |-> Get(user_data, "profile_image", NoUrl),
   followers_count |-> Get(user_data, "followers_count", 0)]

InsertUserKeepOld(table, user_data) ==
  IF \E r \in table : r.user_id = user_data.id
  THEN LET old == CHOOSE r \in table : r.user_id = user_data.id
           new == UserRow(user_data)
       IN InsertOrReplace(table,
            [new EXCEPT !.followers_count =
                          IF "followers_count" \in DOMAIN user_data THEN @
                          ELSE old.followers_count],
            "user_id")
  ELSE InsertOrReplace(table, UserRow(user_data), "user_id")

InsertUser(table, user_data) == InsertOrReplace(table, UserRow(user_data), "user_id")

\* insert_media_files: the statement names no id, so AUTOINCREMENT assigns one
RECURSIVE InsertMediaFiles(_, _, _)
InsertMediaFiles(db, tweet_id, media_files) ==
  IF media_files = <<>> THEN db
  ELSE LET filename == Head(media_files)
           row == [id |-> db.mediaSeq + 1,
                   tweet_id |-> tweet_id,
                   file_name |-> filename,
                   file_type |-> Lower(Suffix(filename)),
                   file_path |-> <<"i", "m", "g", "/">> \o filename]
       IN InsertMediaFiles([db EXCEPT !.media = InsertOrReplace(@, row, "id"),
                                      !.mediaSeq = @ + 1],
                           tweet_id, Tail(media_files))

\* the row written by the INSERT OR REPLACE INTO tweets of process_json_file
TweetRow(data, media_files) ==
  [tweet_id |-> data.tweet_id,
   retweet_id |-> Get(data, "retweet_id", 0),
   quote_id |-> Get(data, "quote_id", 0),
   reply_id |-> Get(data, "reply_id", 0),
   date |-> Get(data, "date", NoDate),
   content |-> Get(data, "content", NoText),
   media_files |-> JsonDumps(media_files),
   author_id |-> IF "author" \in DOMAIN data THEN Get(data.author, "id", NULL) ELSE NULL,
   user_id |-> IF "user" \in DOMAIN data THEN Get(data.user, "id", NULL) ELSE NULL]

\* the return of process_json_file when an exception was caught: the connection
\* is dropped without commit, so the database keeps its state; downloads stay.
\* (Also what it returns while a dropped connection holds the write lock: its
\* first INSERT raises "database is locked", before any download.)
Failed(db, fs) ==
  [db |-> db, fs |-> fs, ret |-> FALSE, committed |-> FALSE, pending |-> FALSE]

\* the same when rows had been written before the exception: the connection is
\* dropped with its transaction open
FailedPending(db, fs) == [Failed(db, fs) EXCEPT !.pending = TRUE]

ProcessJsonFileAutocommit(db, fs, img, file, net) ==
  IF ~file.valid THEN Failed(db, fs)
  ELSE
    LET data == file.data
        hasAuthor == "author" \in DOMAIN data
        hasUser == "user" \in DOMAIN data
    IN IF hasAuthor /\ "id" \notin DOMAIN data.author THEN Failed(db, fs)
       ELSE
         LET users1 == IF hasAuthor THEN InsertUser(db.users, data.author) ELSE db.users
             fs1 == IF hasAuthor THEN ProcessProfileImages(fs, data.author, net) ELSE fs
         IN IF hasUser /\ "id" \notin DOMAIN data.user
            THEN Failed([db EXCEPT !.users = users1], fs1)
            ELSE
              LET users2 == IF hasUser THEN InsertUser(users1, data.user) ELSE users1
                  fs2 == IF hasUser THEN ProcessProfileImages(fs1, data.user, net)
                         ELSE fs1
              IN IF "tweet_id" \notin DOMAIN data
                 THEN Failed([db EXCEPT !.users = users2], fs2)
                 ELSE
                   LET media_files == GetMediaFiles(img, data.tweet_id)
                       db3 == [db EXCEPT
                                 !.users = users2,
                                 !.tweets = InsertOrReplace(@, TweetRow(data, media_files),
                                                            "tweet_id")]
                   IN [db |-> InsertMediaFiles(db3, data.tweet_id, media_files),
                       fs |-> fs2, ret |-> TRUE, committed |-> TRUE, pending |-> FALSE]

\* process_json_file. db = [tweets, users, media, mediaSeq]
ProcessJsonFile(db, fs, img, file, net) ==
  IF ~file.valid THEN Failed(db, fs)
  ELSE
    LET data == file.data
        hasAuthor == "author" \in DOMAIN data
        hasUser == "user" \in DOMAIN data
    IN IF hasAuthor /\ "id" \notin DOMAIN data.author THEN Failed(db, fs)
       ELSE
         LET users1 == IF hasAuthor THEN InsertUser(db.users, data.author) ELSE db.users
             fs1 == IF hasAuthor THEN ProcessProfileImages(fs, data.author, net) ELSE fs
         IN IF hasUser /\ "id" \notin DOMAIN data.user
            THEN IF hasAuthor THEN FailedPending(db, fs1) ELSE Failed(db, fs1)
            ELSE
              LET users2 == IF hasUser THEN InsertUser(users1, data.user) ELSE users1
                  fs2 == IF hasUser THEN ProcessProfileImages(fs1, data.user, net)
                         ELSE fs1
              IN IF "tweet_id" \notin DOMAIN data
                 THEN IF hasAuthor \/ hasUser THEN FailedPending(db, fs2)
                      ELSE Failed(db, fs2)
                 ELSE
                   LET media_files == GetMediaFiles(img, data.tweet_id)
                       db3 == [db EXCEPT
                                 !.users = users2,
                                 !.tweets = InsertOrReplace(@, TweetRow(data, media_files),
                                                            "tweet_id")]
                   IN [db |-> InsertMediaFiles(db3, data.tweet_id, media_files),
                       fs |-> fs2, ret |-> TRUE, committed |-> TRUE, pending |-> FALSE]

\* the most network requests one process_json_file call on file can make: those
\* it makes when every one of them fails
AllFail == [k \in 1..4 |-> FALSE]
MaxRequests(db, fs, img, file) == Len(ProcessJsonFile(db, fs, img, file, AllFail).fs.log)

\* "if self.process_json_file(file_path): success_count += 1"
CountSuccess(count, ret) == IF ret THEN count + 1 ELSE count

\* process_all_files hands json_files[i] to process_json_file, then goes on
NextIndex(k, ret) == k + 1

Init ==
  /\ dir \in Dirs
  /\ imgDir = ImgDir
  /\ tweets = {} /\ users = {} /\ media = {} /\ mediaSeq = 0
  /\ ledgerFile = {} /\ avatarDir = {}
  /\ pc = "idle" /\ run = 0 /\ downloaded_images = {} /\ i = 0 /\ success_count = 0
  /\ leaked = FALSE
  /\ resp = <<>> /\ call = <<>>
  /\ okUrls = {} /\ refetched = {} /\ last = NoLast
  /\ visits = [k \in 1..Len(dir) |-> 0]
  /\ committedDocs = {} /\ committedRun = 0 /\ attemptedRun = {} /\ ledgerAtStart = {}

\* main(): TwitterDataProcessor(path), then process_all_files() up to its loop
StartRun ==
  /\ pc = "idle" /\ run < MaxRuns
  /\ run' = run + 1
  /\ downloaded_images' = LoadDownloadedImages(ledgerFile)
  /\ ledgerAtStart' = LoadDownloadedImages(ledgerFile)
  /\ pc' = IF dir = <<>> THEN "idle" ELSE "loop"
  /\ i' = 1 /\ success_count' = 0 /\ leaked' = FALSE
  /\ visits' = [k \in 1..Len(dir) |-> 0]
  /\ committedRun' = 0 /\ attemptedRun' = {} /\ last' = NoLast
  /\ UNCHANGED <<inputVars, dbVars, fsVars, resp, okUrls, refetched, committedDocs>>

\* one iteration of the loop of process_all_files. A connection an earlier
\* iteration dropped with rows written keeps the write lock of the database
\* until the garbage collector finalises it: collected says whether that has
\* happened when this iteration gets to its first statement
ProcessStep ==
  /\ pc = "loop" /\ i <= Len(dir)
  /\ LET db == [tweets |-> tweets, users |-> users, media |-> media,
                 mediaSeq |-> mediaSeq]
         fs == [mem |-> downloaded_images, avatar |-> avatarDir, okUrls |-> okUrls,
                refetched |-> refetched, log |-> <<>>]
     IN \E collected \in IF leaked THEN BOOLEAN ELSE {TRUE} :
        \E n \in {IF collected THEN MaxRequests(db, fs, imgDir, dir[i]) ELSE 0} :
        \E net \in [1..n -> BOOLEAN] :
        \E r \in {IF collected THEN ProcessJsonFile(db, fs, imgDir, dir[i], net)
                  ELSE Failed(db, fs)} :
          /\ leaked' = (~collected \/ r.pending)
          /\ tweets' = r.db.tweets /\ users' = r.db.users
          /\ media' = r.db.media /\ mediaSeq' = r.db.mediaSeq
          /\ downloaded_images' = r.fs.mem /\ avatarDir' = r.fs.avatar
          /\ okUrls' = r.fs.okUrls /\ refetched' = r.fs.refetched
          /\ success_count' = CountSuccess(success_count, r.ret)
          /\ last' = [i |-> i, ret |-> r.ret, committed |-> r.committed, log |-> r.fs.log]
          /\ committedDocs' = IF r.committed THEN committedDocs \cup {dir[i]}
                              ELSE committedDocs
          /\ committedRun' = IF r.committed THEN committedRun + 1 ELSE committedRun
          /\ attemptedRun' = attemptedRun \cup {r.fs.log[k].url : k \in 1..Len(r.fs.log)}
          /\ i' = NextIndex(i, r.ret)
  /\ visits' = [visits EXCEPT ![i] = @ + 1]
  /\ UNCHANGED <<inputVars, ledgerFile, pc, run, resp, ledgerAtStart>>

\* the end of process_all_files: the ledger is saved, the totals are logged
FinishRun ==
  /\ pc = "loop" /\ i > Len(dir)
  /\ ledgerFile' = SaveDownloadedImages(downloaded_images)
  /\ pc' = "idle"
  /\ UNCHANGED <<inputVars, dbVars, avatarDir, run, downloaded_images, i, success_count,
                 leaked, resp, histVars>>

Next == StartRun \/ ProcessStep \/ FinishRun

Spec == Init /\ [][Next]_vars

\* ------------------------------------- what a file makes ingestion do
\* the user sub-objects process_json_file gets to insert for a file
UsersOf(file) ==
  {file.data[k] : k \in {"author", "user"} \cap DOMAIN file.data}

\* the URLs whose download process_json_file gets to on a file
RECURSIVE UrlsOfUsers(_)
UrlsOfUsers(us) ==
  IF us = <<>> \/ "id" \notin DOMAIN Head(us) THEN {}
  ELSE ({Get(Head(us), "profile_banner", NoUrl), Get(Head(us), "profile_image", NoUrl)}
        \ {NoUrl}) \cup UrlsOfUsers(Tail(us))

ReachedUrls(file) ==
  IF ~file.valid THEN {}
  ELSE UrlsOfUsers((IF "author" \in DOMAIN file.data THEN <<file.data.author>> ELSE <<>>)
                   \o (IF "user" \in DOMAIN file.data THEN <<file.data.user>> ELSE <<>>))

\* a file that process_json_file can process when no download is needed
Processable(file) ==
  /\ file.valid
  /\ "tweet_id" \in DOMAIN file.data
  /\ \A u \in UsersOf(file) : "id" \in DOMAIN u

RowsWith(table, col, v) == {r \in table : r[col] = v}

\* ------------------------------------------------------- viewer: SQL rows
\* the row of NULLs a LEFT JOIN yields when no row matches
NullUser ==
  [user_id |-> NULL, name |-> NoText, profile_banner |-> NoUrl,
   profile_image |-> NoUrl, followers_count |-> NULL]

NullTweet ==
  [tweet_id |-> NULL, retweet_id |-> NULL, quote_id |-> NULL, reply_id |-> NULL,
   date |-> NoDate, content |-> NoText, media_files |-> NoJson,
   author_id |-> NULL, user_id |-> NULL]

\* d[k] = v, as a new dict
With(d, k, v) == (k :> v) @@ d

\* "LEFT JOIN users x ON <id> = x.user_id": user_id is the primary key
LeftJoinUser(db, id) ==
  IF id # NULL /\ \E u \in db.users : u.user_id = id
  THEN CHOOSE u \in db.users : u.user_id = id
  ELSE NullUser

\* "LEFT JOIN tweets x ON <id> = x.tweet_id": tweet_id is the primary key
LeftJoinTweet(db, id) ==
  IF id # NULL /\ \E t \in db.tweets : t.tweet_id = id
  THEN CHOOSE t \in db.tweets : t.tweet_id = id
  ELSE NullTweet

\* the columns "a.name as author_name, ..., u.profile_image as user_avatar"
AuthorUserCols(db, t) ==
  LET a == LeftJoinUser(db, t.author_id)
      u == LeftJoinUser(db, t.user_id)
  IN [author_name |-> a.name, author_avatar |-> a.profile_image,
      user_name |-> u.name, user_avatar |-> u.profile_image]

\* the columns "x.content as <p>_content, ..., xa.profile_image as <p>_author_avatar"
\* of the joins "tweets x ON t.<p>_id = x.tweet_id, users xa ON x.author_id = xa.user_id"
RelatedCols(db, t, p) ==
  LET x == LeftJoinTweet(db, t[p \o "_id"])
      xa == LeftJoinUser(db, x.author_id)
  IN (p \o "_content" :> x.content) @@ (p \o "_author_id" :> x.author_id)
     @@ (p \o "_user_id" :> x.user_id) @@ (p \o "_media_files" :> x.media_files)
     @@ (p \o "_author_name" :> xa.name) @@ (p \o "_author_avatar" :> xa.profile_image)

\* a < b for the TEXT column date
DateLess(a, b) ==
  \/ a.y < b.y
  \/ a.y = b.y /\ a.m < b.m
  \/ a.y = b.y /\ a.m = b.m /\ a.t < b.t

\* "ORDER BY t.date DESC": the orders the rows can come in (NULL sorts last in
\* DESC; rows with equal dates come in an order SQL leaves open)
\* (the rows are split around a row of median date: the later ones, then the
\* ones of its date in any order, then the earlier ones)
RECURSIVE OrderByDateDesc(_)
OrderByDateDesc(rows) ==
  IF rows = {} THEN {<<>>}
  ELSE LET Later(r) == {o \in rows : DateLess(r.date, o.date)}
           Earlier(r) == {o \in rows : DateLess(o.date, r.date)}
           mid == CHOOSE r \in rows :
                    /\ 2 * Cardinality(Later(r)) <= Cardinality(rows)
                    /\ 2 * Cardinality(Earlier(r)) <= Cardinality(rows)
           same == rows \ (Later(mid) \cup Earlier(mid))
           RECURSIVE AnyOrder(_)
           AnyOrder(S) ==
             IF S = {} THEN {<<>>}
             ELSE UNION {{<<r>> \o s : s \in AnyOrder(S \ {r})} : r \in S}
       IN {a \o e \o b : a \in OrderByDateDesc(Later(mid)), e \in AnyOrder(same),
                         b \in OrderByDateDesc(Earlier(mid))}

\* "LIMIT limit OFFSET offset": a negative OFFSET counts as 0
LimitOffset(s, limit, offset) ==
  LET off == IF offset < 0 THEN 0 ELSE offset
      n == IF Len(s) - off < 0 THEN 0
           ELSE IF Len(s) - off < limit THEN Len(s) - off ELSE limit
  IN [k \in 1..n |-> s[off + k]]

ReverseLookupByQuoteId(db, col, id) ==
  LET hits == {t \in db.tweets : t.quote_id # NULL /\ t.quote_id = id}
  IN IF hits = {} THEN <<>>
     ELSE LET t == CHOOSE h \in hits : \A g \in hits : h.tweet_id <= g.tweet_id
          IN <<t @@ AuthorUserCols(db, t)>>

\* "WHERE t.<col> = ? LIMIT 1" over tweets with its two user joins: the scan of
\* tweets goes by rowid, which is tweet_id; fetchone() gives None or the first row
ReverseLookup(db, col, id) ==
  LET hits == {t \in db.tweets : t[col] # NULL /\ t[col] = id}
  IN IF hits = {} THEN <<>>
     ELSE LET t == CHOOSE h \in hits : \A g \in hits : h.tweet_id <= g.tweet_id
          IN <<t @@ AuthorUserCols(db, t)>>

\* --------------------------------------------------- viewer: the formatter
\* truthiness of an id-or-None value
TruthyId(x) == x # NULL /\ x # 0

Placeholder == [where |-> "placeholder", stem |-> "", ext |-> "", id |-> 0]

\* f"/avatar/{local_filename}"
LocalUrl(name) == [where |-> "local", stem |-> name.kind, ext |-> name.ext, id |-> name.id]

ConvertAvatarUnchecked(avatar, user_id, original_url) ==
  IF ~TruthyUrl(original_url) \/ ~TruthyId(user_id) THEN Placeholder
  ELSE LocalUrl(LocalName("avatar", user_id, original_url))

\* convert_avatar_url_to_local: the cached file if avatar/ holds it
ConvertAvatarUrlToLocal(avatar, user_id, original_url) ==
  IF ~TruthyUrl(original_url) \/ ~TruthyId(user_id) THEN Placeholder
  ELSE LET local_filename == LocalName("avatar", user_id, original_url)
       IN IF local_filename \in avatar THEN LocalUrl(local_filename) ELSE Placeholder

\* convert_banner_url_to_local: None when the file is missing
ConvertBannerUrlToLocal(avatar, user_id, original_url) ==
  IF ~TruthyUrl(original_url) \/ ~TruthyId(user_id) THEN NoUrl
  ELSE LET local_filename == LocalName("banner", user_id, original_url)
       IN IF local_filename \in avatar THEN LocalUrl(local_filename) ELSE NoUrl

\* str.lstrip("/")
RECURSIVE LStripSlash(_)
LStripSlash(s) == IF s # <<>> /\ Head(s) = "/" THEN LStripSlash(Tail(s)) ELSE s

ImgPrefix == <<"i", "m", "g", "/">>

NormalizeAlwaysPrefix(media_list) ==
  [k \in 1..Len(media_list) |-> ImgPrefix \o LStripSlash(media_list[k])]

\* _normalize_media_list
NormalizeMediaList(media_list) ==
  [k \in 1..Len(media_list) |->
     LET clean_path == LStripSlash(media_list[k])
     IN IF StartsWith(clean_path, ImgPrefix) THEN clean_path ELSE ImgPrefix \o clean_path]

\* the characters \s matches and str.strip() strips
IsSpace(c) == c \in {" ", "\t", "\n"}

\* content.split("\n")
RECURSIVE SplitLines(_)
SplitLines(s) ==
  IF \A k \in 1..Len(s) : s[k] # "\n" THEN <<s>>
  ELSE LET k == CHOOSE j \in 1..Len(s) : s[j] = "\n" /\ \A h \in 1..(j - 1) : s[h] # "\n"
       IN <<SubSeq(s, 1, k - 1)>> \o SplitLines(SubSeq(s, k + 1, Len(s)))

\* line.strip() then re.sub(r"\s+", " ", line)
RECURSIVE SquashLine(_, _)
SquashLine(line, started) ==
  IF line = <<>> THEN <<>>
  ELSE IF IsSpace(Head(line))
       THEN IF ~started \/ \A k \in 1..Len(line) : IsSpace(line[k]) THEN
              SquashLine(Tail(line), started)
            ELSE IF IsSpace(line[2]) THEN SquashLine(Tail(line), started)
            ELSE <<" ">> \o SquashLine(Tail(line), started)
       ELSE <<Head(line)>> \o SquashLine(Tail(line), TRUE)

\* "<br>".join(lines)
RECURSIVE JoinBr(_)
JoinBr(lines) ==
  IF lines = <<>> THEN <<>>
  ELSE IF Len(lines) = 1 THEN lines[1]
  ELSE lines[1] \o <<"<br>">> \o JoinBr(Tail(lines))

\* clean_tweet_content
CleanTweetContent(content) ==
  IF ~TruthyText(content) THEN content
  ELSE LET lines == SplitLines(content)
           processed_lines == [k \in 1..Len(lines) |-> SquashLine(lines[k], FALSE)]
       IN JoinBr(SelectSeq(processed_lines, LAMBDA l : l # <<>>))

\* a text with links is a sequence of elements cut where the patterns of
\* process_space_links and process_links can begin or end a match: a scheme, the
\* host and path prefix after it, single characters, and the pieces of emitted
\* markup cut before their first whitespace and their first double quote

\* the first character of an element
First(t) ==
  CASE t \in {"<br>", "<a", "<div", "</a>", "<span class=\"tco-link\">view link</span>"} -> "<"
    [] t \in {"\" target=\"_blank\" class=\"space-link\">Space</a>",
              "\" target=\"_blank\" class=\"general-link\">",
              "\"><iframe src=\"", "\"></iframe></div>"} -> "\""
    [] t \in {" href=\"", " class=\"youtube-embed\" data-video-id=\""} -> " "
    [] OTHER -> t

\* the character classes of the patterns: [a-zA-Z0-9_-], [a-zA-Z0-9], [^"\s]
\* and [^\s<>"]
InClass(cls, t) ==
  CASE cls = "id" -> t \in {"a", "-"}
    [] cls = "alnum" -> t = "a"
    [] cls = "tail" -> ~IsSpace(First(t)) /\ First(t) # "\""
    [] cls = "url" -> ~IsSpace(First(t)) /\ First(t) \notin {"<", ">", "\""}

\* the longest run of elements of a class from position k on (greedy + and *)
RECURSIVE RunLen(_, _, _)
RunLen(s, k, cls) ==
  IF k <= Len(s) /\ InClass(cls, s[k]) THEN 1 + RunLen(s, k + 1, cls) ELSE 0

\* the length of the match of a rule's pattern at position k, 0 if it does not
\* match there: space_link_pattern, youtube_pattern, tco_pattern,
\* general_link_pattern with its negative lookahead
MatchLen(rule, s, k) ==
  IF k + 1 > Len(s) \/ s[k] \notin {"http://", "https://"} THEN 0
  ELSE LET head == s[k + 1]
           ids == RunLen(s, k + 2, "id")
       IN CASE rule = "space" ->
                 IF head \in {"x.com/i/spaces/", "twitter.com/i/spaces/"} /\ ids > 0
                 THEN 2 + ids ELSE 0
            [] rule = "youtube" ->
                 IF head \in {"youtu.be/", "www.youtube.com/embed/"} /\ ids > 0
                 THEN IF k + 2 + ids <= Len(s) /\ s[k + 2 + ids] = "?"
                      THEN 3 + ids + RunLen(s, k + 3 + ids, "tail")
                      ELSE 2 + ids
                 ELSE 0
            [] rule = "tco" ->
                 IF head = "t.co/" /\ RunLen(s, k + 2, "alnum") > 0
                 THEN 2 + RunLen(s, k + 2, "alnum") ELSE 0
            [] rule = "general" ->
                 IF head \notin {"t.co/", "youtu.be/", "www.youtube.com/embed/",
                                 "www.youtube.com/c/", "x.com/i/spaces/",
                                 "twitter.com/i/spaces/"}
                 THEN IF RunLen(s, k + 1, "url") > 0 THEN 1 + RunLen(s, k + 1, "url") ELSE 0
                 ELSE 0

\* replace_space_link, replace_youtube_link, replace_tco_link,
\* replace_general_link on the matched text m
Replacement(rule, m) ==
  CASE rule = "space" ->
         <<"<a", " href=\"">> \o m \o <<"\" target=\"_blank\" class=\"space-link\">Space</a>">>
    [] rule = "youtube" ->
         LET video_id == SubSeq(m, 3, 2 + RunLen(m, 3, "id"))
         IN <<"<div", " class=\"youtube-embed\" data-video-id=\"">> \o video_id
            \o <<"\"><iframe src=\"", "https://", "www.youtube.com/embed/">> \o video_id
            \o <<"\"></iframe></div>">>
    [] rule = "tco" -> <<"<span class=\"tco-link\">view link</span>">>
    [] rule = "general" ->
         <<"<a", " href=\"">> \o m \o <<"\" target=\"_blank\" class=\"general-link\">">>
         \o m \o <<"</a>">>

\* re.sub(pattern, replace, content) from position k on: leftmost matches, one
\* after the other, never overlapping
RECURSIVE ReSub(_, _, _)
ReSub(rule, s, k) ==
  IF k > Len(s) THEN <<>>
  ELSE LET n == MatchLen(rule, s, k)
       IN IF n > 0 THEN Replacement(rule, SubSeq(s, k, k + n - 1)) \o ReSub(rule, s, k + n)
          ELSE <<s[k]>> \o ReSub(rule, s, k + 1)

\* process_space_links
ProcessSpaceLinks(content) ==
  IF ~TruthyText(content) THEN content ELSE ReSub("space", content, 1)

\* the three assignments to content in process_links, in their order
LinkStages(content) ==
  LET youtube == ReSub("youtube", content, 1)
      tco == ReSub("tco", youtube, 1)
  IN <<youtube, tco, ReSub("general", tco, 1)>>

\* process_links
ProcessLinks(content) ==
  IF ~TruthyText(content) THEN content ELSE LinkStages(content)[3]

\* clean_tweet_content, process_space_links, process_links, in this order
FormatContent(content) == ProcessLinks(ProcessSpaceLinks(CleanTweetContent(content)))

\* "if d.get(key): d[key] = convert_avatar_url_to_local(d.get(idkey), d[key])"
ConvertAvatarAt(avatar, d, key, idkey) ==
  IF TruthyUrl(Get(d, key, NoUrl))
  THEN With(d, key, ConvertAvatarUrlToLocal(avatar, Get(d, idkey, NULL), d[key]))
  ELSE d

ConvertBannerAt(avatar, d, key, idkey) ==
  IF TruthyUrl(Get(d, key, NoUrl))
  THEN With(d, key, ConvertBannerUrlToLocal(avatar, Get(d, idkey, NULL), d[key]))
  ELSE d

\* "if d.get(info) and d[info].get('author_avatar'): d[info]['author_avatar'] = ..."
ConvertInfoAvatar(avatar, d, info) ==
  IF info \in DOMAIN d
  THEN With(d, info, ConvertAvatarAt(avatar, d[info], "author_avatar", "author_id"))
  ELSE d

\* "if d.get('media_files'): d['media_files'] = _normalize_media_list(...)"
NormalizeMediaAt(d) ==
  IF Get(d, "media_files", <<>>) # <<>>
  THEN With(d, "media_files", NormalizeMediaList(d.media_files))
  ELSE d

NormalizeInfoMedia(d, info) ==
  IF info \in DOMAIN d THEN With(d, info, NormalizeMediaAt(d[info])) ELSE d

FormatContentTwiceAt(d) ==
  IF TruthyText(Get(d, "content", NoText))
  THEN With(d, "content", FormatContent(FormatContent(d.content)))
  ELSE d

\* "if d.get('content'): d['content'] = process_links(process_space_links(clean(...)))"
FormatContentAt(d) ==
  IF TruthyText(Get(d, "content", NoText))
  THEN With(d, "content", FormatContent(d.content))
  ELSE d

FormatInfoContent(d, info) ==
  IF info \in DOMAIN d THEN With(d, info, FormatContentAt(d[info])) ELSE d

\* the statements of process_tweet_data, in the order of the code
ProcessTweetDataSteps ==
  << <<"avatar", "author_avatar", "author_id">>, <<"avatar", "user_avatar", "user_id">>,
     <<"banner", "author_banner", "author_id">>, <<"banner", "user_banner", "user_id">>,
     <<"info_avatar", "quote_info">>, <<"info_avatar", "quoted_info">>,
     <<"info_avatar", "retweet_info">>, <<"info_avatar", "reply_info">>,
     <<"info_avatar", "quoted_info">>,
     <<"media">>,
     <<"info_media", "quote_info">>, <<"info_media", "quoted_info">>,
     <<"info_media", "reply_info">>, <<"info_media", "replied_info">>,
     <<"info_media", "retweet_info">>,
     <<"content">>,
     <<"info_content", "reply_info">>, <<"info_content", "quote_info">>,
     <<"info_content", "quoted_info">>, <<"info_content", "replied_info">>,
     <<"info_avatar", "replied_info">>,
     <<"info_content", "retweet_info">>,
     <<"info_avatar", "retweet_info">>, <<"info_avatar", "quote_info">>,
     <<"info_avatar", "reply_info">> >>

ProcessTweetDataStep(avatar, d, s) ==
  CASE s[1] = "avatar" -> ConvertAvatarAt(avatar, d, s[2], s[3])
    [] s[1] = "banner" -> ConvertBannerAt(avatar, d, s[2], s[3])
    [] s[1] = "info_avatar" -> ConvertInfoAvatar(avatar, d, s[2])
    [] s[1] = "media" -> NormalizeMediaAt(d)
    [] s[1] = "info_media" -> NormalizeInfoMedia(d, s[2])
    [] s[1] = "content" -> FormatContentAt(d)
    [] s[1] = "info_content" -> FormatInfoContent(d, s[2])

\* the steps applied to d one after the other (first one half, then the other)
RECURSIVE RunSteps(_, _, _)
RunSteps(avatar, d, steps) ==
  IF Len(steps) = 1 THEN ProcessTweetDataStep(avatar, d, steps[1])
  ELSE LET h == Len(steps) \div 2
           half == RunSteps(avatar, d, SubSeq(steps, 1, h))
       IN IF DOMAIN half = {} THEN half
          ELSE RunSteps(avatar, half, SubSeq(steps, h + 1, Len(steps)))

\* process_tweet_data
ProcessTweetData(avatar, tweet_dict) ==
  IF DOMAIN tweet_dict = {} THEN tweet_dict
  ELSE RunSteps(avatar, tweet_dict, ProcessTweetDataSteps)

\* ------------------------------------------------ viewer: the view builders
\* "if tweet['media_files']: json.loads(...) else []"
ParseMedia(text) == IF TruthyJson(text) THEN JsonLoads(text) ELSE <<>>

\* "tweet[flag] = tweet[col] > 0" raises TypeError on None
FlagRaises(tweet, cols) == \E c \in cols : tweet[c] = NULL

\* a media_files text that is not JSON
BadJson == <<"malformed", <<>>>>

\* json.loads outside any try raises JSONDecodeError: on the row's own
\* media_files, and on <p>_media_files where the handler builds <p>_info with
\* its media files (forwards)
ParseRaises(db, t, forwards) ==
  \/ TruthyJson(t.media_files) /\ JsonLoadsRaises(t.media_files)
  \/ \E p \in forwards :
       LET cols == RelatedCols(db, t, p)
       IN /\ t[p \o "_id"] > 0 /\ TruthyText(cols[p \o "_content"])
          /\ TruthyJson(cols[p \o "_media_files"])
          /\ JsonLoadsRaises(cols[p \o "_media_files"])

\* the retweet_info / quote_info / reply_info dict built from the joined columns
\* <p>_content ...; withMedia: whether the handler adds the media_files key
ForwardInfo(tweet, p, withMedia) ==
  LET info == [content |-> tweet[p \o "_content"],
               author_id |-> tweet[p \o "_author_id"],
               user_id |-> tweet[p \o "_user_id"],
               author_name |-> tweet[p \o "_author_name"],
               author_avatar |-> tweet[p \o "_author_avatar"]]
  IN IF withMedia
     THEN With(info, "media_files", ParseMedia(tweet[p \o "_media_files"]))
     ELSE info

\* "if tweet['is_<p>'] and tweet.get('<p>_content'): tweet['<p>_info'] = {...}"
AddForwardInfo(tweet, p, withMedia) ==
  IF tweet[p \o "_id"] > 0 /\ TruthyText(tweet[p \o "_content"])
  THEN With(tweet, p \o "_info", ForwardInfo(tweet, p, withMedia))
  ELSE tweet

\* the quoted_info / replied_info dict built from the row of a reverse lookup;
\* json.loads is tried, a failure leaves []
ReverseInfo(o) ==
  [tweet_id |-> o.tweet_id, content |-> o.content, author_id |-> o.author_id,
   user_id |-> o.user_id, author_name |-> o.author_name,
   author_avatar |-> o.author_avatar,
   media_files |-> IF TruthyJson(o.media_files) /\ ~JsonLoadsRaises(o.media_files)
                   THEN JsonLoads(o.media_files) ELSE <<>>]

\* "cursor.execute(... WHERE t.<col> = ? LIMIT 1); if row: tweet[key] = {...}"
AddReverseInfo(db, tweet, col, key) ==
  LET orig == ReverseLookup(db, col, tweet.tweet_id)
  IN IF orig # <<>> THEN With(tweet, key, ReverseInfo(orig[1])) ELSE tweet

\* per_page of index, user_profile and search
PerPage == 20

\* "total_pages = (total + per_page - 1) // per_page"
TotalPages(total) == (total + PerPage - 1) \div PerPage

\* max_visible of get_pagination_range: the default, which every caller takes
MaxVisible == 7

\* "list(range(start_page, end_page + 1))"
PageRange(start_page, end_page) ==
  [k \in 1..(end_page - start_page + 1) |-> start_page + k - 1]

GetPaginationRangeNoEnd(current_page, total_pages, max_visible) ==
  LET half_visible == max_visible \div 2
      Answer(pages, show_first, show_last, prev_dots, next_dots) ==
        [pages |-> pages, show_first |-> show_first, show_last |-> show_last,
         show_prev_dots |-> prev_dots, show_next_dots |-> next_dots]
  IN IF total_pages <= max_visible
     THEN Answer(PageRange(1, total_pages), FALSE, FALSE, FALSE, FALSE)
     ELSE IF current_page <= half_visible + 1
     THEN Answer(PageRange(1, max_visible), FALSE, total_pages > max_visible,
                 FALSE, total_pages > max_visible)
     ELSE Answer(PageRange(current_page - half_visible, current_page + half_visible),
                 TRUE, TRUE, TRUE, TRUE)

\* get_pagination_range: every page when they fit, else a window of
\* max_visible pages at the start, at the end or around current_page
GetPaginationRange(current_page, total_pages, max_visible) ==
  LET half_visible == max_visible \div 2
      Answer(pages, show_first, show_last, prev_dots, next_dots) ==
        [pages |-> pages, show_first |-> show_first, show_last |-> show_last,
         show_prev_dots |-> prev_dots, show_next_dots |-> next_dots]
  IN IF total_pages <= max_visible
     THEN Answer(PageRange(1, total_pages), FALSE, FALSE, FALSE, FALSE)
     ELSE IF current_page <= half_visible + 1
     THEN Answer(PageRange(1, max_visible), FALSE, total_pages > max_visible,
                 FALSE, total_pages > max_visible)
     ELSE IF current_page >= total_pages - half_visible
     THEN Answer(PageRange(total_pages - max_visible + 1, total_pages),
                 total_pages > max_visible, FALSE,
                 total_pages > max_visible, FALSE)
     ELSE Answer(PageRange(current_page - half_visible, current_page + half_visible),
                 TRUE, TRUE, TRUE, TRUE)

\* what a handler returns: render_template(...) is 200, ("...", 404) is 404, an
\* exception leaving the handler is 500; conn is what the handler did with the
\* connection it opened: "closed" when conn.close() ran before the return,
\* "dropped" when the handler returned or raised without closing it
Rendered(endpoint, request, body) ==
  [endpoint |-> endpoint, request |-> request, status |-> 200, body |-> body,
   conn |-> "closed"]

NotFoundOk(endpoint, request) ==
  [endpoint |-> endpoint, request |-> request, status |-> 200, body |-> <<>>,
   conn |-> "dropped"]

NotFound(endpoint, request) ==
  [endpoint |-> endpoint, request |-> request, status |-> 404, body |-> <<>>,
   conn |-> "dropped"]

ServerError(endpoint, request) ==
  [endpoint |-> endpoint, request |-> request, status |-> 500, body |-> <<>>,
   conn |-> "dropped"]

AllFlags == {"retweet_id", "quote_id", "reply_id"}

\* "tweet['is_<p>'] = tweet['<p>_id'] > 0"
SetFlag(tweet, p) == With(tweet, "is_" \o p, tweet[p \o "_id"] > 0)

SetFlags(tweet) == SetFlag(SetFlag(SetFlag(tweet, "retweet"), "quote"), "reply")

\* the body of the loop of index over the rows of its SELECT
IndexTweet(db, avatar, t) ==
  LET row == t @@ AuthorUserCols(db, t) @@ RelatedCols(db, t, "retweet")
      parsed == With(row, "media_files", ParseMedia(row.media_files))
      flagged == SetFlags(parsed)
      forward == AddForwardInfo(flagged, "retweet", FALSE)
      quoted == AddReverseInfo(db, forward, "quote_id", "quoted_info")
      replied == AddReverseInfo(db, quoted, "reply_id", "replied_info")
  IN ProcessTweetData(avatar, replied)

\* the body of the loop of user_profile
ProfileTweet(db, avatar, t) ==
  LET row == t @@ AuthorUserCols(db, t) @@ RelatedCols(db, t, "retweet")
             @@ RelatedCols(db, t, "quote") @@ RelatedCols(db, t, "reply")
      parsed == With(row, "media_files", ParseMedia(row.media_files))
      flagged == SetFlags(parsed)
      retweet == AddForwardInfo(flagged, "retweet", TRUE)
      quote == AddForwardInfo(retweet, "quote", TRUE)
      reply == AddForwardInfo(quote, "reply", TRUE)
  IN ProcessTweetData(avatar, reply)

DetailTweetWithForwardQuote(db, avatar, t) ==
  LET a == LeftJoinUser(db, t.author_id)
      u == LeftJoinUser(db, t.user_id)
      row == t @@ AuthorUserCols(db, t) @@ RelatedCols(db, t, "retweet")
             @@ RelatedCols(db, t, "quote")
             @@ [author_banner |-> a.profile_banner, user_banner |-> u.profile_banner]
      parsed == With(row, "media_files", ParseMedia(row.media_files))
      flagged == SetFlag(parsed, "retweet")
      forward == AddForwardInfo(AddForwardInfo(flagged, "retweet", TRUE), "quote", TRUE)
      quoted == AddReverseInfo(db, forward, "quote_id", "quoted_info")
      replied == AddReverseInfo(db, quoted, "reply_id", "replied_info")
  IN ProcessTweetData(avatar, replied)

\* tweet_detail after its 404 check: only the retweet is joined and flagged; quote
\* and reply are looked up in reverse
DetailTweet(db, avatar, t) ==
  LET a == LeftJoinUser(db, t.author_id)
      u == LeftJoinUser(db, t.user_id)
      row == t @@ AuthorUserCols(db, t) @@ RelatedCols(db, t, "retweet")
             @@ [author_banner |-> a.profile_banner, user_banner |-> u.profile_banner]
      parsed == With(row, "media_files", ParseMedia(row.media_files))
      flagged == SetFlag(parsed, "retweet")
      forward == AddForwardInfo(flagged, "retweet", TRUE)
      quoted == AddReverseInfo(db, forward, "quote_id", "quoted_info")
      replied == AddReverseInfo(db, quoted, "reply_id", "replied_info")
  IN ProcessTweetData(avatar, replied)

\* the body of the loop of search
SearchTweet(db, avatar, t) ==
  LET row == t @@ AuthorUserCols(db, t) @@ RelatedCols(db, t, "retweet")
             @@ RelatedCols(db, t, "quote") @@ RelatedCols(db, t, "reply")
      parsed == With(row, "media_files", ParseMedia(row.media_files))
      flagged == SetFlags(parsed)
      retweet == AddForwardInfo(flagged, "retweet", TRUE)
      quote == AddForwardInfo(retweet, "quote", TRUE)
      reply == AddForwardInfo(quote, "reply", TRUE)
  IN ProcessTweetData(avatar, reply)

\* the user dict of user_profile: avatar and banner turned into local paths
ProfileUser(avatar, user) ==
  ConvertBannerAt(avatar, ConvertAvatarAt(avatar, user, "profile_image", "user_id"),
                  "profile_banner", "user_id")

\* ---------------------------------------------------- viewer: the search
\* SQLite's LIKE: % is any run of characters, _ any one character, letters
\* match without regard to case
RECURSIVE Like(_, _)
Like(s, pattern) ==
  IF pattern = <<>> THEN s = <<>>
  ELSE IF Head(pattern) = "%"
       THEN Like(s, Tail(pattern)) \/ (s # <<>> /\ Like(Tail(s), pattern))
       ELSE /\ s # <<>>
            /\ Head(pattern) = "_" \/ LowerChar(Head(pattern)) = LowerChar(Head(s))
            /\ Like(Tail(s), Tail(pattern))

\* "t.content LIKE ?": NULL is like nothing
ContentLike(content, pattern) == content # NoText /\ Like(content, pattern)

\* str.zfill(n)
RECURSIVE ZFill(_, _)
ZFill(s, n) == IF Len(s) >= n THEN s ELSE ZFill(<<"0">> \o s, n)

\* strftime('%Y', t.date) and strftime('%m', t.date): NULL for a NULL date
StrfY(date) == IF date = NoDate THEN NoText ELSE ZFill(IntToText(date.y), 4)
StrfM(date) == IF date = NoDate THEN NoText ELSE ZFill(IntToText(date.m), 2)

\* the WHERE clause search builds from the filters that are not empty
SearchWhere(t, query, year, month) ==
  /\ query # <<>> => ContentLike(t.content, <<"%">> \o query \o <<"%">>)
  /\ year # <<>> => StrfY(t.date) = year
  /\ month # <<>> => StrfM(t.date) = ZFill(month, 2)

\* ------------------------------------------------- viewer: the requests
Pages == {1, 2}
UserIds == 0..3
TweetIds == 0..4

Store == [tweets |-> tweets, users |-> users, media |-> media, mediaSeq |-> mediaSeq]

PageOfFromZero(ordered, page) == LimitOffset(ordered, PerPage, page * PerPage)

\* the rows of a page, each run through the body of the handler's loop
PageOf(ordered, page) == LimitOffset(ordered, PerPage, (page - 1) * PerPage)

\* GET /?page=
Index(page) ==
  /\ pc = "idle" /\ resp = <<>>
  /\ \E ordered \in OrderByDateDesc(tweets) :
       LET rows == PageOf(ordered, page)
       IN resp' =
            IF \E k \in 1..Len(rows) : \/ FlagRaises(rows[k], AllFlags)
                                        \/ ParseRaises(Store, rows[k], {})
            THEN <<ServerError("index", [page |-> page])>>
            ELSE <<Rendered("index", [page |-> page],
                     [tweets |-> [k \in 1..Len(rows) |-> IndexTweet(Store, avatarDir, rows[k])],
                      page |-> page,
                      total_pages |-> TotalPages(Cardinality(tweets)),
                      total_tweets |-> Cardinality(tweets),
                      total_users |-> Cardinality({u.user_id : u \in users}),
                      total_media |-> Cardinality(media)])>>
  /\ UNCHANGED <<inputVars, dbVars, procVars, fsVars, histVars>>

\* GET /user/<user_id>?page=
UserProfile(user_id, page) ==
  /\ pc = "idle" /\ resp = <<>>
  /\ LET found == {u \in users : u.user_id = user_id}
         mine == {t \in tweets : t.user_id = user_id \/ t.author_id = user_id}
     IN IF found = {} THEN resp' = <<NotFound("user_profile", [user_id |-> user_id, page |-> page])>>
        ELSE \E ordered \in OrderByDateDesc(mine) :
               LET rows == PageOf(ordered, page)
               IN resp' =
                    IF \E k \in 1..Len(rows) :
                         \/ FlagRaises(rows[k], AllFlags)
                         \/ ParseRaises(Store, rows[k], {"retweet", "quote", "reply"})
                    THEN <<ServerError("user_profile", [user_id |-> user_id, page |-> page])>>
                    ELSE <<Rendered("user_profile", [user_id |-> user_id, page |-> page],
                             [user |-> ProfileUser(avatarDir, CHOOSE u \in found : TRUE),
                              tweets |-> [k \in 1..Len(rows) |->
                                            ProfileTweet(Store, avatarDir, rows[k])],
                              page |-> page,
                              total_pages |-> TotalPages(Cardinality(mine)),
                              total_tweets |-> Cardinality(mine)])>>
  /\ UNCHANGED <<inputVars, dbVars, procVars, fsVars, histVars>>

\* GET /tweet/<tweet_id>
TweetDetail(tweet_id) ==
  /\ pc = "idle" /\ resp = <<>>
  /\ LET found == {t \in tweets : t.tweet_id = tweet_id}
     IN resp' =
          IF found = {} THEN <<NotFound("tweet_detail", [tweet_id |-> tweet_id])>>
          ELSE LET t == CHOOSE r \in found : TRUE
               IN IF FlagRaises(t, {"retweet_id"}) \/ ParseRaises(Store, t, {"retweet"})
                  THEN <<ServerError("tweet_detail", [tweet_id |-> tweet_id])>>
                  ELSE <<Rendered("tweet_detail", [tweet_id |-> tweet_id],
                           [tweet |-> DetailTweet(Store, avatarDir, t)])>>
  /\ UNCHANGED <<inputVars, dbVars, procVars, fsVars, histVars>>

\* GET /search?q=&year=&month=&page=
Search(query, year, month, page) ==
  /\ pc = "idle" /\ resp = <<>>
  /\ LET request == [q |-> query, year |-> year, month |-> month, page |-> page]
         hits == {t \in tweets : SearchWhere(t, query, year, month)}
     IN IF query = <<>> /\ year = <<>> /\ month = <<>>
        THEN resp' = <<[Rendered("search", request,
                                 [tweets |-> <<>>, page |-> 1, total_pages |-> 0])
                          EXCEPT !.conn = "none"]>>   \* returns before it connects
        ELSE \E ordered \in OrderByDateDesc(hits) :
               LET rows == PageOf(ordered, page)
               IN resp' =
                    IF \E k \in 1..Len(rows) :
                         \/ FlagRaises(rows[k], AllFlags)
                         \/ ParseRaises(Store, rows[k], {"retweet", "quote", "reply"})
                    THEN <<ServerError("search", request)>>
                    ELSE <<Rendered("search", request,
                             [tweets |-> [k \in 1..Len(rows) |->
                                            SearchTweet(Store, avatarDir, rows[k])],
                              page |-> page,
                              total_pages |-> TotalPages(Cardinality(hits))])>>
  /\ UNCHANGED <<inputVars, dbVars, procVars, fsVars, histVars>>

\* the row of top_tweets: json.loads is tried, a failure leaves []
StatsTweet(db, avatar, t) ==
  LET a == LeftJoinUser(db, t.author_id)
      row == t @@ [author_name |-> a.name, author_avatar |-> a.profile_image]
      parsed == With(row, "media_files",
                     IF TruthyJson(row.media_files) /\ ~JsonLoadsRaises(row.media_files)
                     THEN JsonLoads(row.media_files) ELSE <<>>)
  IN ProcessTweetData(avatar, parsed)

\* GET /stats (top_users and top_tweets hold at most 10 rows, ordered by
\* columns the store of this model never fills more than 3 rows of: as sets)
Stats ==
  /\ pc = "idle" /\ resp = <<>>
  /\ resp' = <<Rendered("stats", <<>>,
       [total_tweets |-> Cardinality(tweets),
        total_users |-> Cardinality({u.user_id : u \in users}),
        total_media |-> Cardinality(media),
        total_retweets |-> Cardinality({t \in tweets : /\ t.author_id # NULL
                                                       /\ t.user_id # NULL
                                                       /\ t.author_id # t.user_id}),
        total_replies |-> Cardinality({t \in tweets : t.reply_id > 0}),
        total_quotes |-> Cardinality({t \in tweets : t.quote_id > 0}),
        top_users |-> {With(ConvertAvatarAt(avatarDir, u, "profile_image", "user_id"),
                            "tweet_count",
                            Cardinality({t \in tweets : t.user_id = u.user_id})) :
                         u \in {x \in users : \E t \in tweets : t.user_id = x.user_id}},
        top_tweets |-> {StatsTweet(Store, avatarDir, t) : t \in tweets}])>>
  /\ UNCHANGED <<inputVars, dbVars, procVars, fsVars, histVars>>

\* TwitterDataProcessor.get_statistics
GetStatistics(db) ==
  [tweets |-> Cardinality(db.tweets),
   users |-> Cardinality(db.users),
   media_files |-> Cardinality(db.media),
   tweets_with_media |-> Cardinality({t \in db.tweets : t.media_files # JsonDumps(<<>>)}),
   retweets |-> Cardinality({t \in db.tweets : /\ t.author_id # NULL /\ t.user_id # NULL
                                               /\ t.author_id # t.user_id}),
   original_tweets |-> Cardinality({t \in db.tweets : \/ t.author_id = NULL
                                                      \/ t.author_id = t.user_id})]

\* main() with --stats: the statistics are printed
Statistics ==
  /\ pc = "idle" /\ resp = <<>>
  /\ resp' = <<Rendered("--stats", <<>>, GetStatistics(Store))>>
  /\ UNCHANGED <<inputVars, dbVars, procVars, fsVars, histVars>>

\* the response is sent
Respond ==
  /\ resp # <<>>
  /\ resp' = <<>>
  /\ UNCHANGED <<inputVars, dbVars, procVars, fsVars, histVars>>

\* one whole run of process_all_files over files, every download succeeding
\* (ok) or every download failing; the loop over the files is folded by
\* halves, the second half starting from the store the first half left
RECURSIVE IngestAll(_, _, _, _, _)
IngestAll(db, fs, img, files, ok) ==
  IF files = <<>> THEN [db |-> db, fs |-> fs, count |-> 0, committed |-> {}]
  ELSE IF Len(files) = 1
  THEN LET r == ProcessJsonFile(db, [fs EXCEPT !.log = <<>>], img, files[1],
                                [k \in 1..4 |-> ok])
       IN [db |-> r.db, fs |-> r.fs, count |-> CountSuccess(0, r.ret),
           committed |-> IF r.committed THEN {files[1]} ELSE {}]
  ELSE LET h == Len(files) \div 2
           left == IngestAll(db, fs, img, SubSeq(files, 1, h), ok)
           right == IngestAll(left.db, left.fs, img,
                              SubSeq(files, h + 1, Len(files)), ok)
       IN CASE left.count \in Nat ->   \* the first half is done before the second
            [right EXCEPT !.count = left.count + @,
                          !.committed = left.committed \cup @]

\* the viewer is started on a store that one ingestion run has filled
InitView ==
  /\ dir \in Dirs
  /\ imgDir = ImgDir
  /\ \E ok \in BOOLEAN :
       \E r \in {IngestAll([tweets |-> {}, users |-> {}, media |-> {}, mediaSeq |-> 0],
                           [mem |-> {}, avatar |-> {}, okUrls |-> {}, refetched |-> {},
                            log |-> <<>>],
                           imgDir, dir, ok)} :
         /\ tweets = r.db.tweets /\ users = r.db.users
         /\ media = r.db.media /\ mediaSeq = r.db.mediaSeq
         /\ downloaded_images = r.fs.mem /\ avatarDir = r.fs.avatar
         /\ ledgerFile = IF dir = <<>> THEN {} ELSE SaveDownloadedImages(r.fs.mem)
         /\ okUrls = r.fs.okUrls /\ refetched = r.fs.refetched
         /\ success_count = r.count /\ committedRun = r.count
         /\ committedDocs = r.committed
         /\ attemptedRun = UNION {ReachedUrls(dir[k]) : k \in 1..Len(dir)}
  /\ pc = "idle" /\ run = 1 /\ i = Len(dir) + 1 /\ leaked = FALSE
  /\ resp = <<>> /\ call = <<>>
  /\ last = NoLast
  /\ visits = [k \in 1..Len(dir) |-> 1]
  /\ ledgerAtStart = {}

NextView ==
  \/ \E page \in Pages : Index(page)
  \/ \E user_id \in UserIds, page \in Pages : UserProfile(user_id, page)
  \/ \E tweet_id \in TweetIds : TweetDetail(tweet_id)
  \/ \E query \in {<<>>, <<"a">>, <<"b">>, <<"_">>, <<"%">>, <<"A", "_">>},
        year \in {<<>>, <<"2", "0", "2", "3">>, <<"2", "0", "2", "4">>},
        month \in {<<>>, <<"1">>, <<"1", "2">>}, page \in Pages :
       Search(query, year, month, page)
  \/ Stats
  \/ Statistics
  \/ Respond

SpecView == InitView /\ [][NextView]_vars

\* the database file is the viewer's input: another writer has left a
\* media_files text that is not JSON in one row
ForeignWrite ==
  /\ pc = "idle" /\ resp = <<>>
  /\ \A t \in tweets : t.media_files # BadJson
  /\ \E t \in tweets : tweets' = (tweets \ {t}) \cup {[t EXCEPT !.media_files = BadJson]}
  /\ UNCHANGED <<inputVars, users, media, mediaSeq, procVars, fsVars, resp, histVars>>

SpecForeign == InitView /\ [][NextView \/ ForeignWrite]_vars

\* ------------------------------------------------- the timeline over many pages
\* the viewer on a store of up to MaxTweets tweets, one document each, with
\* pairwise distinct dates that do not follow the order of the ids

MaxTweets == 41

TimelineDoc(k) ==
  File([tweet_id |-> k, content |-> <<"a">>, date |-> Date(2023, 1, (k * 7) % 43)])

TimelinePages == 0..4

InitTimeline ==
  /\ \E n \in 0..MaxTweets : dir = [k \in 1..n |-> TimelineDoc(k)]
  /\ imgDir = {}
  /\ \E r \in {IngestAll([tweets |-> {}, users |-> {}, media |-> {}, mediaSeq |-> 0],
                         [mem |-> {}, avatar |-> {}, okUrls |-> {}, refetched |-> {},
                          log |-> <<>>],
                         imgDir, dir, TRUE)} :
       /\ tweets = r.db.tweets /\ users = r.db.users
       /\ media = r.db.media /\ mediaSeq = r.db.mediaSeq
       /\ downloaded_images = r.fs.mem /\ avatarDir = r.fs.avatar
       /\ ledgerFile = IF dir = <<>> THEN {} ELSE SaveDownloadedImages(r.fs.mem)
       /\ okUrls = r.fs.okUrls /\ refetched = r.fs.refetched
       /\ success_count = r.count /\ committedRun = r.count
       /\ committedDocs = r.committed
       /\ attemptedRun = UNION {ReachedUrls(dir[k]) : k \in 1..Len(dir)}
  /\ pc = "idle" /\ run = 1 /\ i = Len(dir) + 1 /\ leaked = FALSE
  /\ resp = <<>> /\ call = <<>>
  /\ last = NoLast
  /\ visits = [k \in 1..Len(dir) |-> 1]
  /\ ledgerAtStart = {}

NextTimeline ==
  \/ \E page \in TimelinePages : Index(page)
  \/ Respond

SpecTimeline == InitTimeline /\ [][NextTimeline]_vars


\* ------------------------------------------------------ translation_service.py
\* a service is [service_type, api_key, api_secret]; the module global
\* _translation_service is <<>> (None) or <<service>>; what a function does is
\* [raised, ret, requests]: whether an exception left it, the dictionary it
\* returned, the number of requests sent to a vendor

Vendors == {"openai", "google", "baidu", "youdao", "deepl"}

\* TranslationService.clean_tweet_content: tags out, whitespace collapsed and
\* stripped ("<br>" is the only tag of the texts drawn here)
TranslationClean(content) ==
  IF ~TruthyText(content) THEN <<>>
  ELSE SquashLine(SelectSeq(content, LAMBDA t : t # "<br>"), FALSE)

\* _translate_with_<vendor>: baidu and youdao build their signature with
\* api_secret first (None raises TypeError); any failure of the request, an
\* HTTP error status or an error payload raises
VendorTranslate(service, content, net) ==
  IF service.service_type \in {"baidu", "youdao"} /\ service.api_secret = NoText
  THEN [raised |-> TRUE, text |-> <<>>, requests |-> 0]
  ELSE IF net = "ok" THEN [raised |-> FALSE, text |-> content, requests |-> 1]
  ELSE [raised |-> TRUE, text |-> <<>>, requests |-> 1]

Failure(error, requests) ==
  [raised |-> FALSE, requests |-> requests, ret |-> [success |-> FALSE, error |-> error]]

TranslateTweetUnchecked(service, content, net) ==
  LET v == VendorTranslate(service, TranslationClean(content), net)
  IN IF v.raised THEN Failure("translation failed", v.requests)
     ELSE [raised |-> FALSE, requests |-> v.requests,
           ret |-> [success |-> TRUE, translated |-> v.text]]

\* TranslationService.translate_tweet
TranslateTweet(service, content, net) ==
  LET clean_content == TranslationClean(content)
  IN IF clean_content = <<>> THEN Failure("empty content", 0)
     ELSE IF service.service_type \notin Vendors THEN Failure("unsupported service", 0)
     ELSE LET v == VendorTranslate(service, clean_content, net)
          IN IF v.raised THEN Failure("translation failed", v.requests)
             ELSE [raised |-> FALSE, requests |-> v.requests,
                   ret |-> [success |-> TRUE, translated |-> v.text]]

\* TranslationService.detect_language: only the openai service asks a vendor
DetectLanguage(service, content, net) ==
  LET clean_content == TranslationClean(content)
  IN IF clean_content = <<>> THEN Failure("empty text", 0)
     ELSE IF service.service_type # "openai"
     THEN [raised |-> FALSE, requests |-> 0,
           ret |-> [success |-> TRUE, detected_lang |-> "en"]]
     ELSE IF net = "ok"
     THEN [raised |-> FALSE, requests |-> 1,
           ret |-> [success |-> TRUE, detected_lang |-> "en"]]
     ELSE Failure("detection failed", 1)

\* get_translation_service: the global instance, constructed on first use;
\* TranslationService.__init__ raises ValueError without an api_key
GetTranslationService(global, service_type, api_key, api_secret) ==
  IF global # <<>> THEN [raised |-> FALSE, service |-> global[1]]
  ELSE IF ~TruthyText(api_key) THEN [raised |-> TRUE, service |-> <<>>]
  ELSE [raised |-> FALSE,
        service |-> [service_type |-> service_type, api_key |-> api_key,
                     api_secret |-> api_secret]]

\* translate_tweet_content and detect_tweet_language: get_translation_service()
\* with its defaults, then the method, with no try around either
Convenience(fn, global, content, net) ==
  LET got == GetTranslationService(global, "google", NoText, NoText)
  IN IF got.raised THEN [raised |-> TRUE, requests |-> 0, ret |-> <<>>]
     ELSE IF fn = "translate_tweet_content" THEN TranslateTweet(got.service, content, net)
     ELSE DetectLanguage(got.service, content, net)

\* api_translate on the JSON body data: jsonify(...) and the status; the
\* handler's own try turns an exception into status 500
ApiTranslate(data, net) ==
  IF DOMAIN data = {} THEN Failure("no request data", 0) @@ [status |-> 400]
  ELSE IF ~TruthyText(Get(data, "content", <<>>))
  THEN Failure("no content", 0) @@ [status |-> 400]
  ELSE IF ~TruthyText(Get(data, "api_key", <<>>))
  THEN Failure("no api key", 0) @@ [status |-> 400]
  ELSE TranslateTweet([service_type |-> Get(data, "translation_service", "google"),
                       api_key |-> data.api_key,
                       api_secret |-> Get(data, "api_secret", <<>>)],
                      data.content, net) @@ [status |-> 200]

\* calls with contents that are None, empty, blank, a tag, or text; services
\* of every vendor and of an unknown one, with and without api_secret; every
\* way the request to the vendor can end
TranslationCalls ==
  LET texts == {NoText, <<>>, <<" ">>, <<" ", "\n">>, <<"<br>">>, <<"<br>", " ">>, <<"a">>,
                <<" ", "a">>, <<"a", "<br>", "b">>}
      nets == {"ok", "network error", "http error", "error payload"}
      services == [service_type : Vendors \cup {"bing"}, api_key : {<<"k">>},
                   api_secret : {NoText, <<"s">>}]
  IN [fn : {"translate_tweet", "detect_language"}, service : services, content : texts,
      net : nets]
     \cup [fn : {"translate_tweet_content", "detect_tweet_language"},
           global : {<<>>} \cup {<<s>> : s \in services}, content : texts, net : nets]
     \cup [fn : {"api_translate"}, net : nets,
           data : {<<>>} \cup [content : texts \ {NoText}, api_key : {<<>>, <<"k">>},
                               translation_service : Vendors \cup {"bing"}]
                         \cup [content : texts \ {NoText}]]

\* a method of a TranslationService instance is called
MethodCall ==
  /\ call # <<>> /\ call.fn \in {"translate_tweet", "detect_language"} /\ resp = <<>>
  /\ resp' = <<IF call.fn = "translate_tweet"
               THEN TranslateTweet(call.service, call.content, call.net)
               ELSE DetectLanguage(call.service, call.content, call.net)>>
  /\ UNCHANGED <<inputVars, dbVars, procVars, fsVars, histVars>>

\* translate_tweet_content or detect_tweet_language is called
ConvenienceCall ==
  /\ call # <<>> /\ call.fn \in {"translate_tweet_content", "detect_tweet_language"}
  /\ resp = <<>>
  /\ resp' = <<Convenience(call.fn, call.global, call.content, call.net)>>
  /\ UNCHANGED <<inputVars, dbVars, procVars, fsVars, histVars>>

\* POST /api/translate
ApiTranslateCall ==
  /\ call # <<>> /\ call.fn = "api_translate" /\ resp = <<>>
  /\ resp' = <<ApiTranslate(call.data, call.net)>>
  /\ UNCHANGED <<inputVars, dbVars, procVars, fsVars, histVars>>

\* ------------------------------------------ the formatter functions on their own
\* one function of the page layer is called on arguments drawn from a pool; resp
\* collects what it returns

MaxList == 2

MediaLists ==
  LET prefixes == {<<>>, <<"/">>, <<"/", "/">>, ImgPrefix, <<"/">> \o ImgPrefix,
                   <<"i", "m", "g">>}
      bodies == {<<>>, <<"a">>, <<"/", "a">>, ImgPrefix \o <<"a">>}
      names == {p \o b : p \in prefixes, b \in bodies}
  IN UNION {[1..n -> names] : n \in 0..MaxList}

AvatarFiles == {[kind |-> "avatar", id |-> 1, ext |-> ".jpg"],
                [kind |-> "avatar", id |-> 2, ext |-> ".png"],
                [kind |-> "avatar", id |-> 2, ext |-> ""],
                [kind |-> "banner", id |-> 3, ext |-> ".jpg"]}

\* values of users.profile_image: None or "", remote with and without a file
\* extension, and the placeholder itself
StoredUrls == {NoUrl, UrlA, UrlB, [where |-> "remote", stem |-> "c", ext |-> "", id |-> 0],
               Placeholder}

MaxParts == 4

\* total_pages up to MaxPages, more than max_visible so that the window moves
MaxPages == 12

\* tweet contents: up to MaxParts pieces, each a character or a URL
Contents ==
  LET pieces == {<<"a">>, <<"a", " ">>, <<" ">>, <<"\n">>, <<"?">>, <<"-">>,
                 <<"http://", "t.co/", "a">>, <<"https://", "youtu.be/", "a">>,
                 <<"https://", "x.com/i/spaces/", "a">>, <<"https://", "e.org/">>,
                 <<"https://", "www.youtube.com/c/", "a">>}
      RECURSIVE Concat(_)
      Concat(ps) == IF ps = <<>> THEN <<>> ELSE Head(ps) \o Concat(Tail(ps))
  IN {Concat(ps) : ps \in UNION {[1..n -> pieces] : n \in 0..MaxParts}}

\* tweet dictionaries as the handlers hand them to process_tweet_data: the root
\* with None or with a content, each relation sub-object missing, with "" or
\* with a content of its own
TweetDicts ==
  LET infos == <<"reply_info", "quote_info", "quoted_info", "replied_info",
                 "retweet_info">>
      texts == {NoText, <<>>, <<"https://", "e.org/">>,
                <<"a", " ", "\n", "https://", "e.org/", "a">>}
      objects == {[author_id |-> 1, content |-> c] : c \in texts \ {NoText}}
      RECURSIVE Put(_, _)
      Put(ds, k) ==
        IF k > Len(infos) THEN ds
        ELSE Put(ds \cup {With(d, infos[k], o) : d \in ds, o \in objects}, k + 1)
  IN Put({[tweet_id |-> 1, content |-> c] : c \in texts \ {<<>>}}, 1)

Calls ==
  {[fn |-> "_normalize_media_list", args |-> <<l>>] : l \in MediaLists}
  \cup {[fn |-> "process_tweet_data", args |-> <<d>>] : d \in TweetDicts}
  \cup {[fn |-> "get_pagination_range", args |-> <<page, total_pages>>] :
          page \in 0..(MaxPages + 1), total_pages \in 0..MaxPages}
  \cup {[fn |-> "content", args |-> <<c>>] : c \in Contents}
  \cup TranslationCalls
  \cup {[fn |-> "convert_avatar_url_to_local", args |-> <<u, url>>] :
          u \in {NULL} \cup 0..3, url \in StoredUrls}

InitCalls ==
  /\ call \in Calls
  /\ avatarDir \in IF call.fn = "convert_avatar_url_to_local" THEN SUBSET AvatarFiles
                   ELSE {{}}
  /\ dir = <<>> /\ imgDir = {}
  /\ tweets = {} /\ users = {} /\ media = {} /\ mediaSeq = 0
  /\ ledgerFile = {}
  /\ pc = "idle" /\ run = 0 /\ downloaded_images = {} /\ i = 0 /\ success_count = 0
  /\ leaked = FALSE
  /\ resp = <<>>
  /\ okUrls = {} /\ refetched = {} /\ last = NoLast
  /\ visits = <<>>
  /\ committedDocs = {} /\ committedRun = 0 /\ attemptedRun = {} /\ ledgerAtStart = {}

\* _normalize_media_list(media_list), then once more on the list it returned
NormalizeMediaListCall ==
  /\ call # <<>> /\ call.fn = "_normalize_media_list" /\ Len(resp) < 2
  /\ resp' = Append(resp, NormalizeMediaList(IF resp = <<>> THEN call.args[1]
                                             ELSE resp[Len(resp)]))
  /\ UNCHANGED <<inputVars, dbVars, procVars, fsVars, histVars>>

\* convert_avatar_url_to_local(user_id, original_url)
ConvertAvatarCall ==
  /\ call # <<>> /\ call.fn = "convert_avatar_url_to_local" /\ resp = <<>>
  /\ resp' = <<ConvertAvatarUrlToLocal(avatarDir, call.args[1], call.args[2])>>
  /\ UNCHANGED <<inputVars, dbVars, procVars, fsVars, histVars>>

\* the content of a tweet through process_tweet_data: what content holds after
\* clean_tweet_content, after process_space_links and after each of the three
\* substitutions of process_links
FormatContentCall ==
  /\ call # <<>> /\ call.fn = "content" /\ resp = <<>>
  /\ LET content == call.args[1]
         cleaned == CleanTweetContent(content)
         spaced == ProcessSpaceLinks(cleaned)
     IN resp' = IF ~TruthyText(content) THEN <<content, content, content, content, content>>
                ELSE IF ~TruthyText(spaced) THEN <<cleaned, spaced, spaced, spaced, spaced>>
                ELSE <<cleaned, spaced>> \o LinkStages(spaced)
  /\ UNCHANGED <<inputVars, dbVars, procVars, fsVars, histVars>>

\* process_tweet_data(tweet_dict)
ProcessTweetDataCall ==
  /\ call # <<>> /\ call.fn = "process_tweet_data" /\ resp = <<>>
  /\ resp' = <<ProcessTweetData(avatarDir, call.args[1])>>
  /\ UNCHANGED <<inputVars, dbVars, procVars, fsVars, histVars>>

\* "pagination = get_pagination_range(page, total_pages)"
GetPaginationRangeCall ==
  /\ call # <<>> /\ call.fn = "get_pagination_range" /\ resp = <<>>
  /\ resp' = <<GetPaginationRange(call.args[1], call.args[2], MaxVisible)>>
  /\ UNCHANGED <<inputVars, dbVars, procVars, fsVars, histVars>>

NextCalls ==
  \/ NormalizeMediaListCall
  \/ GetPaginationRangeCall
  \/ ProcessTweetDataCall
  \/ ConvertAvatarCall
  \/ FormatContentCall
  \/ MethodCall
  \/ ConvenienceCall
  \/ ApiTranslateCall

SpecCalls == InitCalls /\ [][NextCalls]_vars


\* --------------------------------------------------------------- claims
\* C1: after any number of ingestion runs over the same documents, tweets holds
\* exactly one row per tweet_id of a successfully ingested document and users
\* exactly one row per user id those documents mention as author or user.
C1_OneRowPerId ==
  LET tweetIds == {d.data.tweet_id : d \in committedDocs}
      userIds == {u.id : u \in UNION {UsersOf(d) : d \in committedDocs}}
  IN /\ \A t \in tweetIds : Cardinality(RowsWith(tweets, "tweet_id", t)) = 1
     /\ \A r \in tweets : r.tweet_id \in tweetIds
     /\ \A u \in userIds : Cardinality(RowsWith(users, "user_id", u)) = 1
     /\ \A r \in users : r.user_id \in userIds

\* two files with the same tweet_id, naming user 1 and user 2, ingested twice
C1_Witness ==
  /\ pc = "idle" /\ run = 2
  /\ committedDocs = {DocT1, DocT1b}
  /\ Cardinality(tweets) = 1 /\ Cardinality(users) = 2

\* C2: re-running ingestion with an unchanged img directory leaves exactly one
\* media_files row per (tweet_id, file_name) pair found on disk for an ingested
\* tweet, and no other row.
C2_OneMediaRowPerFile ==
  LET tweetIds == {d.data.tweet_id : d \in committedDocs}
      pairs == {<<t, f>> : t \in tweetIds, f \in imgDir}
      onDisk == {p \in pairs : StartsWith(p[2], IntToText(p[1]) \o <<"_">>)}
  IN /\ \A p \in onDisk :
          Cardinality({r \in media : r.tweet_id = p[1] /\ r.file_name = p[2]}) = 1
     /\ \A r \in media : <<r.tweet_id, r.file_name>> \in onDisk

\* C3: a URL fetched successfully once is never requested over the network
\* again, in the same run or in a later one.
C3_NoRefetch == refetched = {}

\* in the second run a file naming a URL that the first run fetched made no request
C3_Witness ==
  /\ run = 2 /\ last.i > 0
  /\ UrlA \in ReachedUrls(dir[last.i])
  /\ UrlA \in okUrls /\ Hash(UrlA) \in ledgerAtStart
  /\ last.log = <<>> /\ last.ret

AllFailed(log) == log # <<>> /\ \A k \in 1..Len(log) : ~log[k].ok

\* C4: a call of process_json_file whose downloads fail leaves the ledger as it
\* was, still commits the rows of a document that is otherwise well formed, and
\* the loop goes on; and every run requests each URL it gets to that the ledger
\* did not hold when the run started.
C4_FailedStep ==
  (last' # last /\ AllFailed(last'.log)) =>
     /\ downloaded_images' = downloaded_images
     /\ ledgerFile' = ledgerFile
     /\ pc' = "loop" /\ i' = i + 1
     /\ Processable(dir[i]) =>
          /\ last'.committed
          /\ RowsWith(tweets', "tweet_id", dir[i].data.tweet_id) # {}
          /\ \A u \in UsersOf(dir[i]) : RowsWith(users', "user_id", u.id) # {}

C4_Retried ==
  (pc = "idle" /\ run > 0) =>
     \A k \in 1..Len(dir) : \A u \in ReachedUrls(dir[k]) :
        Hash(u) \in ledgerAtStart \/ u \in attemptedRun

C4_LedgerHoldsFetchedOnly ==
  downloaded_images \subseteq {Hash(u) : u \in okUrls}

C4_FailedDownload ==
  /\ [][C4_FailedStep]_vars
  /\ [](C4_Retried /\ C4_LedgerHoldsFetchedOnly)

C5_Counts ==
  /\ \A k \in 1..Len(dir) :
        visits[k] = IF pc = "loop" /\ k >= i THEN 0 ELSE IF run = 0 THEN 0 ELSE 1
  /\ success_count = committedRun

C5_Progress ==
  (pc = "loop") =>
     \/ i <= Len(dir) /\ i' = i + 1 /\ pc' = "loop"
     \/ i = Len(dir) + 1 /\ pc' = "idle"

C5_Isolated ==
  (last' # last /\ last'.i >= 1 /\ Processable(dir[i])) => last'.committed

\* C5: a run of process_all_files hands every file to process_json_file exactly
\* once, whatever the earlier files did, and the failure of a file does not keep
\* a later file from being processed: a file that is well formed is committed
\* whatever the files before it did; the count the run reports is the number of
\* files whose rows were committed; and the run ends: every step of a run moves
\* the loop to the next file, and after the last file the run is over.
C5_BatchCompletes == []C5_Counts /\ [][C5_Progress /\ C5_Isolated]_vars

\* the tweet dicts a response carries
ViewsOf(r) ==
  IF r.status # 200 \/ r.endpoint \in {"stats", "--stats"} THEN <<>>
  ELSE IF r.endpoint = "tweet_detail" THEN <<r.body.tweet>>
  ELSE r.body.tweets

Served == IF resp = <<>> THEN <<>> ELSE ViewsOf(resp[1])

StoredTweet(id) == CHOOSE t \in tweets : t.tweet_id = id
Stored(id) == \E t \in tweets : t.tweet_id = id

\* a forward sub-object is the one of the stored tweet target
IsForwardOf(info, target) ==
  /\ info.content = FormatContent(target.content)
  /\ info.author_id = target.author_id
  /\ info.user_id = target.user_id

\* C6: in every view served (timeline, profile, search, detail), a tweet with
\* retweet_id = R > 0 carries a retweet sub-object that is the one of tweet R
\* when R is stored, and carries none, the request not failing, when R is not.
C6_RetweetResolved ==
  /\ resp # <<>> => resp[1].status # 500
  /\ \A k \in 1..Len(Served) :
       LET v == Served[k]
       IN v.retweet_id > 0 =>
            IF Stored(v.retweet_id)
            THEN /\ "retweet_info" \in DOMAIN v
                 /\ IsForwardOf(v.retweet_info, StoredTweet(v.retweet_id))
            ELSE "retweet_info" \notin DOMAIN v

\* C7 (as claimed): the detail view of T carries the forward sub-object of every
\* pointer of T (retweet_id, quote_id, reply_id) that is > 0 and whose target is
\* stored.
C7_DetailResolvesAllForward ==
  (resp # <<>> /\ resp[1].endpoint = "tweet_detail" /\ resp[1].status = 200) =>
     LET v == resp[1].body.tweet
     IN \A p \in {"retweet", "quote", "reply"} :
          (v[p \o "_id"] > 0 /\ Stored(v[p \o "_id"])) => (p \o "_info") \in DOMAIN v

\* C7 (amended): the detail view of T never carries a forward quote or reply
\* sub-object, whatever quote_id and reply_id are; the only forward sub-object
\* is the retweet one, and when it is present retweet_id is > 0 and it is the
\* one of the stored tweet retweet_id names.
C7_DetailForwardRetweetOnly ==
  (resp # <<>> /\ resp[1].endpoint = "tweet_detail" /\ resp[1].status = 200) =>
     LET v == resp[1].body.tweet
     IN /\ "quote_info" \notin DOMAIN v
        /\ "reply_info" \notin DOMAIN v
        /\ "retweet_info" \in DOMAIN v =>
             /\ v.retweet_id > 0 /\ Stored(v.retweet_id)
             /\ IsForwardOf(v.retweet_info, StoredTweet(v.retweet_id))

\* the detail view of a tweet that retweets and quotes a stored tweet: the
\* retweet is embedded, the quote is not
C7_Witness ==
  /\ resp # <<>> /\ resp[1].endpoint = "tweet_detail" /\ resp[1].status = 200
  /\ LET v == resp[1].body.tweet
     IN /\ v.quote_id > 0 /\ Stored(v.quote_id)
        /\ v.retweet_id > 0 /\ "retweet_info" \in DOMAIN v
        /\ "quote_info" \notin DOMAIN v

\* the tweets that point at tweet id by col
PointingAt(col, id) == {t \in tweets : t[col] = id}

\* a reverse sub-object is the one of the stored tweet orig
IsReverseOf(info, orig) ==
  /\ info.tweet_id = orig.tweet_id
  /\ info.content = FormatContent(orig.content)
  /\ info.author_id = orig.author_id
  /\ info.user_id = orig.user_id

C8_ReverseOf(v, col, key) ==
  /\ key \in DOMAIN v <=> PointingAt(col, v.tweet_id) # {}
  /\ key \in DOMAIN v => \E t \in PointingAt(col, v.tweet_id) : IsReverseOf(v[key], t)

C9_Status ==
  resp # <<>> =>
    /\ (resp[1].endpoint = "tweet_detail" /\ ~Stored(resp[1].request.tweet_id))
         => resp[1].status = 404
    /\ (resp[1].endpoint = "user_profile"
        /\ \A u \in users : u.user_id # resp[1].request.user_id)
         => resp[1].status = 404

C9_StoreUntouched ==
  (resp = <<>> /\ resp' # <<>> /\ resp'[1].status = 404) =>
     UNCHANGED <<tweets, users, media, mediaSeq, ledgerFile, avatarDir>>

\* C9: the detail view of a tweet id that is not stored, and the profile of a
\* user id that is not stored, are answered with status 404 (not with an
\* exception, which would be a 500), and answering leaves the store as it was.
C9_AbsentIs404 == []C9_Status /\ [][C9_StoreUntouched]_vars

\* a store that holds tweets is asked for a tweet it does not hold
C9_Witness ==
  /\ resp # <<>> /\ resp[1].endpoint = "tweet_detail"
  /\ tweets # {} /\ ~Stored(resp[1].request.tweet_id)
  /\ resp[1].status = 404

\* s contains q as a substring
Contains(s, q) == \E k \in 0..(Len(s) - Len(q)) : SubSeq(s, k + 1, k + Len(q)) = q

\* int(text) of a text of digits
RECURSIVE TextToInt(_)
TextToInt(s) ==
  IF s = <<>> THEN 0
  ELSE 10 * TextToInt(SubSeq(s, 1, Len(s) - 1))
       + (CHOOSE d \in 0..9 : Digits[d + 1] = s[Len(s)])

\* t satisfies every filter supplied (letters compared without regard to case)
C10_Satisfies(t, q, year, month) ==
  /\ q # <<>> => (t.content # NoText /\ Contains(Lower(t.content), Lower(q)))
  /\ year # <<>> => (t.date # NoDate /\ t.date.y = TextToInt(year))
  /\ month # <<>> => (t.date # NoDate /\ t.date.m = TextToInt(month))

\* C10: a search with at least one filter returns, on its first page, exactly
\* the stored tweets whose content contains the query and whose timestamp has
\* the year and the month asked for ("1" is January), each once, by descending
\* timestamp; so year = "2023" alone returns the tweets of 2023 only.
C10_SearchExact ==
  (/\ resp # <<>> /\ resp[1].endpoint = "search" /\ resp[1].request.page = 1
   /\ <<resp[1].request.q, resp[1].request.year, resp[1].request.month>>
        # <<<<>>, <<>>, <<>>>>) =>
     LET rq == resp[1].request
         wanted == {t.tweet_id : t \in {x \in tweets :
                                         C10_Satisfies(x, rq.q, rq.year, rq.month)}}
     IN /\ resp[1].status = 200
        /\ {Served[k].tweet_id : k \in 1..Len(Served)} = wanted
        /\ Len(Served) = Cardinality(wanted)
        /\ \A j, k \in 1..Len(Served) :
             j < k => ~DateLess(Served[j].date, Served[k].date)

\* the place of a stored tweet in the descending order of the dates
Rank(t) == 1 + Cardinality({o \in tweets : DateLess(t.date, o.date)})

DistinctDates == \A a, b \in tweets : a # b => a.date # b.date

\* C11: an index response holds at most 20 tweets in descending order of date
\* and total_pages = ceil(total / 20); when the dates of the stored tweets are
\* pairwise distinct, page p of 1..total_pages lists exactly the tweets ranked
\* (p - 1) * 20 + 1 .. p * 20, each once, and every stored tweet has its rank on
\* one of these pages: together the pages list every tweet exactly once
C11_Timeline ==
  \A k \in 1..Len(resp) :
    LET r == resp[k] IN
    (r.endpoint = "index" /\ r.status = 200) =>
      LET v == r.body.tweets
          p == r.request.page
          n == r.body.total_pages
      IN /\ Len(v) <= 20
         /\ n * 20 >= Cardinality(tweets) /\ (n - 1) * 20 < Cardinality(tweets)
         /\ Cardinality(tweets) = 0 => n = 0
         /\ \A a, b \in 1..Len(v) : a < b => ~DateLess(v[a].date, v[b].date)
         /\ DistinctDates =>
              /\ p \in 1..n =>
                   /\ \A a, b \in 1..Len(v) : a # b => v[a].tweet_id # v[b].tweet_id
                   /\ {v[a].tweet_id : a \in 1..Len(v)} =
                        {t.tweet_id : t \in {o \in tweets :
                                               Rank(o) \in ((p - 1) * 20 + 1)..(p * 20)}}
              /\ \A t \in tweets : \E q \in 1..n : Rank(t) \in ((q - 1) * 20 + 1)..(q * 20)

\* the last of three pages is served, after a full page, and is not full
C11_Witness ==
  /\ resp # <<>> /\ resp[1].endpoint = "index" /\ resp[1].status = 200
  /\ DistinctDates
  /\ resp[1].request.page = 3 /\ resp[1].body.total_pages = 3
  /\ Len(resp[1].body.tweets) \in 1..19

\* C12: normalising a list of media names a second time changes nothing,
\* whether the names were bare, carried the img/ prefix or a leading slash
C12_NormalizeIdempotent ==
  (call # <<>> /\ call.fn = "_normalize_media_list" /\ Len(resp) = 2) => resp[2] = resp[1]

\* a list with a bare name and a name with slash and prefix was normalised
\* twice, and the first pass changed it
C12_Witness ==
  /\ call # <<>> /\ call.fn = "_normalize_media_list" /\ Len(resp) = 2
  /\ call.args[1] = <<<<"a">>, <<"/">> \o ImgPrefix \o <<"a">>>>
  /\ resp[1] = <<ImgPrefix \o <<"a">>, ImgPrefix \o <<"a">>>>

\* C13: for a user id with no avatar file in avatar/, convert_avatar_url_to_local
\* returns the placeholder whatever the stored URL is, None or empty included
C13_PlaceholderWithoutFile ==
  (call # <<>> /\ call.fn = "convert_avatar_url_to_local" /\ resp # <<>>) =>
    ((\A f \in avatarDir : ~(f.kind = "avatar" /\ f.id = call.args[1])) =>
       resp[1] = Placeholder)

\* user 3 has a banner file but no avatar file, others have avatar files, and
\* a remote URL was resolved for user 3
C13_Witness ==
  /\ call # <<>> /\ call.fn = "convert_avatar_url_to_local" /\ resp # <<>>
  /\ call.args = <<3, UrlA>> /\ avatarDir = AvatarFiles
  /\ resp[1] = Placeholder

\* a t.co short link begins at position k of s
TcoLinkAt(s, k) ==
  k + 2 <= Len(s) /\ s[k] \in {"http://", "https://"} /\ s[k + 1] = "t.co/" /\ s[k + 2] = "a"

TcoMarker == "<span class=\"tco-link\">view link</span>"

\* s with a star in the place of each t.co link, resp. of each marker
RECURSIVE StarLinks(_, _)
StarLinks(s, k) ==
  IF k > Len(s) THEN <<>>
  ELSE IF TcoLinkAt(s, k)
       THEN LET after == CHOOSE j \in (k + 3)..(Len(s) + 1) :
                           /\ \A h \in (k + 2)..(j - 1) : s[h] = "a"
                           /\ (j <= Len(s) => s[j] # "a")
            IN <<"*">> \o StarLinks(s, after)
       ELSE <<s[k]>> \o StarLinks(s, k + 1)

StarMarkers(s) == [k \in 1..Len(s) |-> IF s[k] = TcoMarker THEN "*" ELSE s[k]]

\* C14: the link transformation puts the one fixed marker in the place of every
\* t.co short link of a content and changes nothing around it: when every t.co
\* link of the content begins the content or follows whitespace, the result
\* holds as many markers as the content held t.co links and holds no t.co link,
\* the t.co substitution changes only the links, and for "a http://t.co/aa a"
\* only the link is replaced
C14_TcoLinksMarked ==
  /\ (/\ call # <<>> /\ call.fn = "content" /\ Len(resp) = 5 /\ TruthyText(resp[2])
      /\ \A k \in 2..Len(call.args[1]) :
           TcoLinkAt(call.args[1], k) => IsSpace(call.args[1][k - 1])) =>
       /\ Cardinality({k \in 1..Len(resp[5]) : resp[5][k] = TcoMarker})
            = Cardinality({k \in 1..Len(call.args[1]) : TcoLinkAt(call.args[1], k)})
       /\ \A k \in 1..Len(resp[5]) : ~TcoLinkAt(resp[5], k)
       /\ StarMarkers(resp[4]) = StarLinks(resp[3], 1)
  /\ ProcessLinks(<<"a", " ", "http://", "t.co/", "a", "a", " ", "a">>)
       = <<"a", " ", TcoMarker, " ", "a">>

Rules == {"space", "youtube", "tco", "general"}

\* the text with every URL rewritten once: from left to right, a URL is handed
\* to the rule whose pattern matches where the URL begins, and neither the
\* URL nor the markup put in its place is looked at again
RECURSIVE RewrittenOnce(_, _)
RewrittenOnce(s, k) ==
  IF k > Len(s) THEN <<>>
  ELSE IF \E r \in Rules : MatchLen(r, s, k) > 0
       THEN LET r == CHOOSE q \in Rules : MatchLen(q, s, k) > 0
                n == MatchLen(r, s, k)
            IN Replacement(r, SubSeq(s, k, k + n - 1)) \o RewrittenOnce(s, k + n)
       ELSE <<s[k]>> \o RewrittenOnce(s, k + 1)

\* C20: after the whitespace collapse, the space badge, the video embed, the
\* short-link marker and the general link rule leave the content as if each URL
\* of it had been rewritten by one rule only, and no markup a rule emitted has
\* been rewritten by a later rule
C20_NoUrlRewrittenTwice ==
  (call # <<>> /\ call.fn = "content" /\ Len(resp) = 5 /\ TruthyText(resp[1])) =>
    resp[5] = RewrittenOnce(resp[1], 1)

\* nothing but whitespace and tags, or nothing at all
Blank(content) ==
  content = NoText \/ \A k \in 1..Len(content) : IsSpace(content[k]) \/ content[k] = "<br>"

\* C15: translate_tweet and detect_language, given a content that is empty or
\* only whitespace once cleaned, return success = false without raising and
\* send no request to a vendor
C15_BlankFailsAtOnce ==
  (/\ call # <<>> /\ call.fn \in {"translate_tweet", "detect_language"} /\ resp # <<>>
   /\ Blank(call.content)) =>
    /\ ~resp[1].raised
    /\ resp[1].ret.success = FALSE
    /\ resp[1].requests = 0

\* a whitespace-only content was handed to translate_tweet of a service whose
\* vendor would have answered
C15_Witness ==
  /\ call # <<>> /\ call.fn = "translate_tweet" /\ resp # <<>>
  /\ call.content = <<" ", "\n">> /\ call.net = "ok"
  /\ call.service.service_type = "google"
  /\ resp[1].ret.success = FALSE /\ resp[1].requests = 0

\* the call must fail: the vendor is unknown, the credentials are missing, or
\* the request fails
MustFail ==
  \/ call.fn \in {"translate_tweet_content", "detect_tweet_language"} /\ call.global = <<>>
  \/ call.fn = "translate_tweet" /\ call.service.service_type \notin Vendors
  \/ call.fn = "translate_tweet" /\ ~Blank(call.content) /\ call.net # "ok"
  \/ call.fn = "api_translate" /\ "api_key" \notin DOMAIN call.data

\* C16: translate, detect-language, the convenience functions and api_translate
\* never raise; a failure (network error, vendor error payload, missing
\* credentials, unsupported vendor) comes back as a dictionary with
\* success = false and an error message
C16_FailuresAreStructured ==
  (/\ call # <<>> /\ resp # <<>>
   /\ call.fn \in {"translate_tweet", "detect_language", "translate_tweet_content",
                  "detect_tweet_language", "api_translate"}) =>
    /\ ~resp[1].raised
    /\ MustFail => (resp[1].ret.success = FALSE /\ resp[1].ret.error # "")

\* C17: a media_files text that is not JSON is read as the empty list and no
\* read endpoint fails over it: on a store whose relation ids are all integers,
\* timeline, profile, detail, search and stats answer 200 (404 for an absent
\* user or tweet), and a tweet shown whose stored media_files is malformed has
\* media_files = []
C17_MalformedJsonIsEmptyList ==
  \A k \in 1..Len(resp) :
    /\ (\A t \in tweets : ~FlagRaises(t, AllFlags)) => resp[k].status # 500
    /\ \A j \in 1..Len(ViewsOf(resp[k])) :
         LET v == ViewsOf(resp[k])[j]
         IN StoredTweet(v.tweet_id).media_files = BadJson => v.media_files = <<>>

\* C18: the quoted_info / replied_info of a tweet shown is another tweet, never
\* the tweet itself, also when the tweet's own quote_id or reply_id is its id
C18_ReverseIsAnother ==
  \A k \in 1..Len(Served) :
    /\ "quoted_info" \in DOMAIN Served[k] =>
         Served[k].quoted_info.tweet_id # Served[k].tweet_id
    /\ "replied_info" \in DOMAIN Served[k] =>
         Served[k].replied_info.tweet_id # Served[k].tweet_id

\* C19: the retweet total of the stats page and the retweet count of the
\* ingestion statistics are the number of stored tweets that the timeline
\* flags is_retweet (retweet_id > 0)
C19_OneRetweetRule ==
  \A k \in 1..Len(resp) :
    /\ resp[k].endpoint = "stats" =>
         resp[k].body.total_retweets = Cardinality({t \in tweets : t.retweet_id > 0})
    /\ resp[k].endpoint = "--stats" =>
         resp[k].body.retweets = Cardinality({t \in tweets : t.retweet_id > 0})

\* position k of s lies inside the markup of a link: after the opening of an
\* anchor or of an embed that has not been closed before k
Linked(s, k) ==
  \E j \in 1..(k - 1) :
    /\ s[j] \in {"<a", "<div"}
    /\ \A h \in (j + 1)..(k - 1) :
         s[h] \notin {"</a>", "\"></iframe></div>",
                      "\" target=\"_blank\" class=\"space-link\">Space</a>"}

\* C21: after the content transformation no URL is left as plain text: every
\* http(s) URL of the result lies inside the anchor, the badge or the embed a
\* rule put in its place, and a URL none of the three special rules matches is
\* wrapped by the general rule
C21_NoBareUrlLeft ==
  (call # <<>> /\ call.fn = "content" /\ Len(resp) = 5 /\ TruthyText(resp[2])) =>
    /\ \A k \in 1..Len(resp[5]) :
         resp[5][k] \in {"http://", "https://"} => Linked(resp[5], k)
    /\ \A k \in 1..Len(resp[4]) :
         (/\ resp[4][k] \in {"http://", "https://"} /\ ~Linked(resp[4], k)
          /\ k < Len(resp[4]) /\ InClass("url", resp[4][k + 1])) =>
           \E j \in 1..k : j + MatchLen("general", resp[4], j) > k

InfoKeys == {"reply_info", "quote_info", "quoted_info", "replied_info", "retweet_info"}

\* what the content transformation makes of the content of an object, applied
\* once: an object without content, or with None or "", is left as it is
Formatted(o) ==
  IF "content" \in DOMAIN o /\ TruthyText(o.content)
  THEN With(o, "content", FormatContent(o.content)) ELSE o

\* C22: process_tweet_data applies the content transformation once to the
\* content of the root tweet and once to the content of each relation
\* sub-object (reply_info, quote_info, quoted_info, replied_info, retweet_info),
\* each result being the transformation of that object's own original content;
\* it adds and removes no object
C22_ContentFormattedOnce ==
  (call # <<>> /\ call.fn = "process_tweet_data" /\ resp # <<>>) =>
    LET d == call.args[1]
        out == resp[1]
    IN /\ DOMAIN out = DOMAIN d
       /\ out.content = Formatted(d).content
       /\ \A info \in InfoKeys \cap DOMAIN d :
            /\ DOMAIN out[info] = DOMAIN d[info]
            /\ "content" \in DOMAIN d[info] => out[info].content = Formatted(d[info]).content

\* a tweet whose own content and whose five relation sub-objects all carry a
\* content with a link, no two neighbours the same, has been processed, and
\* transforming a result once more would change it
C22_Witness ==
  /\ call # <<>> /\ call.fn = "process_tweet_data" /\ resp # <<>>
  /\ InfoKeys \subseteq DOMAIN call.args[1]
  /\ TruthyText(call.args[1].content)
  /\ \A info \in InfoKeys :
       /\ "content" \in DOMAIN call.args[1][info]
       /\ TruthyText(call.args[1][info].content)
       /\ resp[1][info].content # call.args[1][info].content
       /\ FormatContent(resp[1][info].content) # resp[1][info].content
  /\ call.args[1].reply_info.content # call.args[1].content
  /\ call.args[1].quote_info.content # call.args[1].reply_info.content
  /\ call.args[1].retweet_info.content # call.args[1].replied_info.content

\* C23: a request handler has closed the connection it opened when it returns,
\* also when it answers 404 and when a statement of it raised
C23_ConnectionClosed ==
  (resp # <<>> /\ "conn" \in DOMAIN resp[1]) => resp[1].conn \in {"none", "closed"}

\* C24: the statistics of the ingestion side count every stored tweet as an
\* original or as a retweet and never as both: retweets + original_tweets is
\* the number of tweets, and a tweet whose author_id or user_id is null is
\* among the originals
C24_OriginalOrRetweet ==
  (resp # <<>> /\ "endpoint" \in DOMAIN resp[1] /\ resp[1].endpoint = "--stats") =>
    /\ resp[1].body.retweets + resp[1].body.original_tweets = resp[1].body.tweets
    /\ resp[1].body.original_tweets
         = Cardinality({t \in tweets : \/ t.author_id = NULL \/ t.user_id = NULL
                                       \/ t.author_id = t.user_id})

\* the sub-object of a document that is written last for user id u: the user
\* sub-object if it names u, else the author sub-object
LastMention(file, u) ==
  IF "user" \in DOMAIN file.data /\ file.data.user.id = u THEN file.data.user
  ELSE file.data.author

Mentions(file, u) == \E o \in UsersOf(file) : "id" \in DOMAIN o /\ o.id = u

\* one document: if its rows are committed, the row of every user it mentions
\* is the row of its last sub-object for that user, every field the sub-object
\* lacks being the default (NULL, 0) and not the value stored before; all
\* other rows, and all rows when nothing is committed, stay as they were
C25_Step ==
  i' # i =>
    IF last'.committed
    THEN /\ \A r \in users' :
              IF Mentions(dir[i], r.user_id)
              THEN LET o == LastMention(dir[i], r.user_id)
                   IN /\ r.name = Get(o, "name", NoText)
                      /\ r.profile_image = Get(o, "profile_image", NoUrl)
                      /\ r.profile_banner = Get(o, "profile_banner", NoUrl)
                      /\ r.followers_count = Get(o, "followers_count", 0)
              ELSE r \in users
         /\ \A r \in users : ~Mentions(dir[i], r.user_id) => r \in users'
         /\ \A o \in UsersOf(dir[i]) : \E r \in users' : r.user_id = o.id
         /\ \A r, q \in users' : r.user_id = q.user_id => r = q
    ELSE users' = users

\* C25: user rows are last-write-wins over the whole row: the table starts
\* empty and each committed document leaves, for every user it mentions, exactly
\* the fields of the last sub-object that mentions the user (the user
\* sub-object after the author sub-object), so that after any sequence of
\* documents the row of a user is that of the last sub-object processed
C25_LastWriteWins == [](run = 0 => users = {}) /\ [][C25_Step]_vars

\* the row of user 1 was written with a banner and 5 followers by one
\* document, and a later document whose sub-object for user 1 has neither has
\* been committed: the row has no banner and 0 followers
C25_Witness ==
  /\ Len(dir) = 2 /\ dir[1] = DocT1 /\ dir[2] = DocT2
  /\ last.i = 2 /\ last.committed /\ run = 1
  /\ \E r \in users : /\ r.user_id = 1 /\ r.name = <<"y">>
                       /\ r.followers_count = 0 /\ r.profile_banner = NoUrl

\* the sub-object whose profile image is the last download of a document
LastUser(file) == IF "user" \in DOMAIN file.data THEN file.data.user ELSE file.data.author

\* C26: when the download of a user's profile image has been reported as
\* successful (fetched, or skipped because its URL is in the ledger), the file
\* avatar_{user_id}{extension} is in avatar/ and the avatar of that user and
\* URL resolves to the local file, not to the placeholder. Stated for the last
\* download of the last document processed, whose report was "successful"
\* exactly if the hash of its URL is in the ledger after it
C26_ReportedAvatarIsLocal ==
  (/\ last.i >= 1 /\ dir[last.i].valid /\ UsersOf(dir[last.i]) # {}
   /\ \A o \in UsersOf(dir[last.i]) : "id" \in DOMAIN o
   /\ TruthyUrl(Get(LastUser(dir[last.i]), "profile_image", NoUrl))
   /\ InLedger(downloaded_images, LastUser(dir[last.i]).profile_image)) =>
    LET o == LastUser(dir[last.i])
    IN /\ LocalName("avatar", o.id, o.profile_image) \in avatarDir
       /\ ConvertAvatarUrlToLocal(avatarDir, o.id, o.profile_image)
            = LocalUrl(LocalName("avatar", o.id, o.profile_image))

C27_Step ==
  (last' # last /\ last'.i >= 1 /\ ~last'.ret) =>
    /\ tweets' = tweets /\ users' = users /\ media' = media
    /\ ~last'.committed

\* C27: a document whose processing fails (process_json_file returns False:
\* the JSON is invalid, tweet_id is missing, or a user sub-object has no id)
\* leaves the tables tweets, users and media_files exactly as they were before
\* it, also when its author or user row had been inserted before the failure
C27_AllOrNothing == [][C27_Step]_vars

\* after a committed document, a document with an author that the store does
\* not hold and without tweet_id has failed: the author is not in the store
C27_Witness ==
  /\ last.i = 2 /\ ~last.ret /\ dir[2] = DocNoTweetId
  /\ dir[1] = DocT1 /\ tweets # {}
  /\ \A r \in users : r.user_id # DocNoTweetId.data.author.id

\* the hashes of the URLs the last process_json_file call fetched
FetchedByLast(l) == {Hash(l.log[k].url) : k \in {j \in 1..Len(l.log) : l.log[j].ok}}

\* a run starts from the hashes in the file; each document adds the hashes of
\* the URLs fetched for it and nothing else; the file is written by the step
\* that ends the run, and by no other, with the hashes the run holds then
C28_Step ==
  /\ (pc = "idle" /\ run' # run) => downloaded_images' = ledgerFile
  /\ (pc = "loop" /\ i' # i) =>
       downloaded_images' = downloaded_images \cup FetchedByLast(last')
  /\ ledgerFile' # ledgerFile => (pc = "loop" /\ i > Len(dir) /\ pc' = "idle")
  /\ (pc = "loop" /\ pc' = "idle") => ledgerFile' = downloaded_images

C28_AfterRun ==
  (pc = "idle" /\ run > 0 /\ dir # <<>>) =>
    /\ ledgerAtStart \subseteq ledgerFile
    /\ ledgerFile \subseteq ledgerAtStart \cup {Hash(u) : u \in attemptedRun \cap okUrls}
    /\ \A u \in attemptedRun \cap okUrls : Hash(u) \in ledgerFile

\* C28: the ledger file after a run of process_all_files that processed its
\* documents is the ledger the run started with united with the hashes of the
\* URLs the run fetched: no hash is lost, the hash of a URL whose download
\* failed is not added, and the file is written once, after the last document
C28_LedgerPersisted == []C28_AfterRun /\ [][C28_Step]_vars

\* a second run that started with a hash in the ledger has ended and its file
\* holds that hash and the hash of a URL fetched in this run
C28_Witness ==
  /\ pc = "idle" /\ run = 2 /\ dir # <<>>
  /\ ledgerAtStart # {} /\ ledgerFile # ledgerAtStart
  /\ ledgerAtStart \subseteq ledgerFile

\* C29: every tweet row written by process_json_file has integer, non-null
\* retweet_id, quote_id and reply_id, 0 also when the document has the key
\* with a null value, so that the is_retweet / is_quote / is_reply flags of
\* the read endpoints are defined for every ingested tweet
C29_RelationIdsDefined == \A t \in tweets : ~FlagRaises(t, AllFlags)

\* the call of get_pagination_range that was answered, within the claim's range
PageCall ==
  /\ call # <<>> /\ call.fn = "get_pagination_range" /\ resp # <<>>
  /\ call.args[2] >= 1 /\ 1 <= call.args[1] /\ call.args[1] <= call.args[2]

====
